---- MODULE Spec2Model ----
(***************************************************************************)
(* A model of vale-ls: the document session (server.rs, utils.rs), the     *)
(* external tool manager (vale.rs) and the style-repository indexer        *)
(* (styles.rs).                                                            *)
(*                                                                         *)
(* Text is a sequence of one-character strings.  Unsigned integers are     *)
(* naturals; where the code subtracts, the build decides what an underflow *)
(* does: with overflow checks ("debug") it panics, without ("release") it  *)
(* wraps.                                                                  *)
(***************************************************************************)
EXTENDS Integers, Sequences, FiniteSets, Bags, TLC

VARIABLES
    build,      \* "debug" | "release": whether arithmetic overflow panics
    rope,       \* the text of the document the text queries run against
    rope0,      \* the text the document was created with
    hoverPos,   \* position of the last hover request, or NoPos
    span,       \* what position_to_range returned for hoverPos
    token,      \* what range_to_token returned for span
    span2,      \* what a repeated position_to_range(hoverPos) returned
    alert,      \* an alert the lint-output parser accepted
    diag,       \* the diagnostic alert_to_diagnostic built for alert
    fixed,      \* what ValeManager::fix returned to the first code-action request
    actions,    \* what the code-action request about alert answered
    alert2,     \* the alert of a second code-action request
    actions2,   \* what the second code-action request answered
    fs,         \* the tree under the style root: a set of [path, dir] nodes
    entries,    \* what StylesPath::index returned for fs
    vocab,      \* the accept and reject files of one vocabulary domain
    added,      \* per file: the terms add_to_vocab wrote to it, in call order
    managed,    \* the executable at managed_exe: absent, or its version
    fallback,   \* the executable at fallback_exe: absent, or its version
    latest,     \* the version the remote release index names as latest
    ops,        \* the last two events of the tool manager, oldest first
    tmp,        \* the temporary files of ValeManager::fix that exist
    document_map,   \* Backend::document_map: URI -> the text stored, or NoDoc
    styles_path,    \* the StylesPath the tool's ls-config reports
    stored_as,      \* per URI: the kind get_ext gave when its text was stored
    handled,        \* what the last notification or request handler did
    warnings,       \* how often "not installed" was logged since the tool was last there
    tasks,          \* per handler future in flight: where it is, and what it holds
    received,       \* how many notifications and requests the server has received
    client,         \* per URI: the diagnostics the client shows (the last publish)
    sent,           \* the calls the handlers made to the client, in order
    readers,        \* per document-map shard: the futures holding a Ref into it
    shard_of,       \* the document-map shard each URI hashes to
    writers         \* per concurrent add_to_vocab call: where it is, and what it read

textVars == <<rope, rope0, hoverPos, span, token, span2>>

alertVars == <<alert, diag, fixed, actions, alert2, actions2>>

indexVars == <<fs, entries, vocab, added>>

toolVars == <<managed, fallback, latest, ops, tmp>>

serverVars == <<document_map, styles_path, stored_as, handled, warnings>>

concVars == <<tasks, received, client, sent, readers, shard_of, writers>>

vars == <<build, textVars, alertVars, indexVars, toolVars, serverVars, concVars>>

Builds == {"debug", "release"}

(***************************************************************************)
(* Bounds of the text queries.                                             *)
(***************************************************************************)
MaxTextLen == 4

\* Characters of the bounded documents: two letters, a blank, a line break.
Alphabet == {"a", "b", " ", "\n"}

\* The line of the hover example in utils.rs.
ExampleLine ==
    <<"B","a","s","e","d","O","n","S","t","y","l","e","s"," ","="," ","V","a","l","e">>

BoundedTexts == UNION {[1..n -> Alphabet] : n \in 0..MaxTextLen}

Texts == BoundedTexts \cup {ExampleLine, ExampleLine \o <<"\n">>}

(***************************************************************************)
(* ropey::Rope: lines are split after each line break and keep it; the     *)
(* text after the last line break is a line of its own, possibly empty.    *)
(***************************************************************************)
IsWhitespace(c) == c \in {" ", "\n", "\t", "\r"}

Breaks(text) == {i \in 1..Len(text) : text[i] = "\n"}

len_lines(text) == Cardinality(Breaks(text)) + 1

\* 1-based index of the k-th line break of text (k >= 1).
BreakAt(text, k) ==
    CHOOSE i \in Breaks(text) : Cardinality({j \in Breaks(text) : j <= i}) = k

\* Rope::line(k) for k < len_lines.
line_of(text, k) ==
    LET first == IF k = 0 THEN 1 ELSE BreakAt(text, k) + 1
        last  == IF k + 1 < len_lines(text) THEN BreakAt(text, k + 1) ELSE Len(text)
    IN  SubSeq(text, first, last)

\* RopeSlice::char(i), 0-based; the caller checks i < Len(context).
char_at(context, i) == context[i + 1]

(***************************************************************************)
(* utils.rs: position_to_range                                             *)
(***************************************************************************)
Panic == [kind |-> "Panic"]
NoSpan == [kind |-> "None"]
SomeSpan(l, s, e) == [kind |-> "Some", line |-> l, start |-> s, end |-> e]
NotCalled == [kind |-> "NotCalled"]
NoPos == [line |-> -1, character |-> -1]

\* -1 stands for the panic of an out-of-bounds RopeSlice::char.
RECURSIVE scan_left(_, _)
scan_left(context, start) ==
    IF start > 0
    THEN IF start - 1 >= Len(context) THEN -1
         ELSE IF ~IsWhitespace(char_at(context, start - 1))
              THEN scan_left(context, start - 1)
              ELSE start
    ELSE start

\* wrapped: extent is usize::MAX (0 - 1 without overflow checks), so that
\* end < extent holds for every end the loop can reach.
RECURSIVE scan_right(_, _, _, _)
scan_right(context, end, extent, wrapped) ==
    IF wrapped \/ end < extent
    THEN IF end + 1 >= Len(context) THEN -1
         ELSE IF ~IsWhitespace(char_at(context, end + 1))
              THEN scan_right(context, end + 1, extent, wrapped)
              ELSE end
    ELSE end

\* The mutant of span_of: "no token" decided by the right boundary alone.
span_of_right_only(l, index, start, end) ==
    IF end = index THEN NoSpan
    ELSE SomeSpan(l, start, end + 1)

\* The end of position_to_range: no token, or the range with its end made
\* exclusive when the right boundary moved.
span_of(l, index, start, end) ==
    IF start = end THEN NoSpan
    ELSE IF end > index THEN SomeSpan(l, start, end + 1)
    ELSE SomeSpan(l, start, end)

position_to_range(p, text, b) ==
    IF p.line >= len_lines(text) THEN Panic
    ELSE
    LET context == line_of(text, p.line)
        count   == Len(context)
        index   == p.character
    IN  IF count = 0 /\ b = "debug" THEN Panic
        ELSE
        LET start == scan_left(context, index)
        IN  IF start = -1 THEN Panic
            ELSE
            LET end == scan_right(context, index, count - 1, count = 0)
            IN  IF end = -1 THEN Panic
                ELSE span_of(p.line, index, start, end)

(***************************************************************************)
(* utils.rs: range_to_token.  RopeSlice::slice panics when the range is    *)
(* reversed or ends past the line.                                         *)
(***************************************************************************)
Str(s) == [kind |-> "Str", s |-> s]

range_to_token(r, text) ==
    IF r.line >= len_lines(text) THEN Panic
    ELSE
    LET context == line_of(text, r.line)
    IN  IF r.start > r.end \/ r.end > Len(context) THEN Panic
        ELSE Str(SubSeq(context, r.start + 1, r.end))

(***************************************************************************)
(* server.rs: the token lookup of hover (position_to_range, then           *)
(* range_to_token on the range found).                                     *)
(***************************************************************************)
Positions(text) ==
    {[line |-> l, character |-> c] :
        l \in 0..len_lines(text), c \in 0..(Len(text) + 1)}

hover_token(p) ==
    /\ hoverPos = NoPos
    /\ hoverPos' = p
    /\ span' = position_to_range(p, rope, build)
    /\ token' = IF span'.kind = "Some" THEN range_to_token(span', rope) ELSE NotCalled
    /\ UNCHANGED <<concVars, build, serverVars, toolVars, rope, rope0, span2, alertVars, indexVars>>

\* The same request once more, on the same document.
hover_again ==
    /\ hoverPos # NoPos
    /\ span2 = NotCalled
    /\ span2' = position_to_range(hoverPos, rope, build)
    /\ UNCHANGED <<concVars, build, serverVars, toolVars, rope, rope0, hoverPos, span, token, alertVars, indexVars>>

TextInit ==
    /\ rope \in Texts
    /\ rope0 = rope
    /\ hoverPos = NoPos
    /\ span = NotCalled
    /\ token = NotCalled
    /\ span2 = NotCalled

\* The ranges range_to_token is asked about: inside the document and past
\* its lines and columns, the reversed ones included.
Ranges(text) ==
    {SomeSpan(l, s, e) :
        l \in 0..len_lines(text), s \in 0..(Len(text) + 1), e \in 0..(Len(text) + 1)}

\* A call of range_to_token about the range r.
token_of(r) ==
    /\ span = NotCalled
    /\ span' = r
    /\ token' = range_to_token(r, rope)
    /\ UNCHANGED <<concVars, build, serverVars, toolVars, rope, rope0, hoverPos, span2, alertVars, indexVars>>

TokenNext == \E r \in Ranges(rope) : token_of(r)

TextNext ==
    \/ \E p \in Positions(rope) : hover_token(p)
    \/ hover_again

(***************************************************************************)
(* Alerts (vale.rs: ValeAlert, ValeAction, ValeFix).  line and span are    *)
(* usize fields: the parser accepts every unsigned value, 0 included.      *)
(***************************************************************************)
MaxLine == 1
MaxCol == 2
MaxSuggestions == 2

\* Action.Name is optional; NoName is its absence.
NoName == "<none>"
ActionNames == {NoName, "remove", "replace"}

Severities == {"warning"}

Alerts ==
    [line : 0..MaxLine, span : (0..MaxCol) \X (0..MaxCol), action : ActionNames,
     matched : {"teh"}, check : {"Vale.Spelling"}, severity : Severities]

\* The alert's line and span start are 1-based, as the tool reports them.
OneBased(a) == a.line >= 1 /\ a.span[1] >= 1

Suggestions == UNION {[1..n -> {"the", "ten"}] : n \in 0..MaxSuggestions}

\* Results of ValeManager::fix: the suggestions, or an error.
FixErr == [ok |-> FALSE]
FixOk(sugg) == [ok |-> TRUE, suggestions |-> sugg]
FixResults == {FixErr} \cup {FixOk(sugg) : sugg \in Suggestions}

\* 2^32 - 1, what 0 - 1 wraps to in a u32, written as its residue modulo
\* 2^32 in the signed 32-bit integers of the checker.
U32Max == -1

\* x - 1 on u32 without overflow checks.
sub1_wrapping(x) == IF x = 0 THEN U32Max ELSE x - 1

(***************************************************************************)
(* utils.rs: alert_to_range, severity_to_level, make_title,                *)
(* alert_to_diagnostic                                                     *)
(***************************************************************************)
Pos(l, c) == [line |-> l, character |-> c]

\* The mutant of alert_to_range: the end column converted like the start.
alert_to_range_end_shifted(a, b) ==
    IF b = "debug" /\ (a.line = 0 \/ a.span[1] = 0) THEN Panic
    ELSE [kind |-> "Range",
          start |-> Pos(sub1_wrapping(a.line), sub1_wrapping(a.span[1])),
          end |-> Pos(sub1_wrapping(a.line), sub1_wrapping(a.span[2]))]

alert_to_range(a, b) ==
    IF b = "debug" /\ (a.line = 0 \/ a.span[1] = 0) THEN Panic
    ELSE [kind |-> "Range",
          start |-> Pos(sub1_wrapping(a.line), sub1_wrapping(a.span[1])),
          end |-> Pos(sub1_wrapping(a.line), a.span[2])]

severity_to_level(severity) ==
    CASE severity = "error" -> "ERROR"
      [] severity = "warning" -> "WARNING"
      [] severity = "suggestion" -> "INFORMATION"
      [] OTHER -> "HINT"

make_title(action, matched, fix) ==
    IF action = "remove" THEN <<"Remove", matched>> ELSE <<"Replace with", fix>>

alert_to_diagnostic(a, b) ==
    LET r == alert_to_range(a, b)
    IN  IF r = Panic THEN Panic
        ELSE [kind |-> "Diagnostic", range |-> r,
              severity |-> severity_to_level(a.severity),
              code |-> a.check, data |-> a]

(***************************************************************************)
(* server.rs: code_action.  ds is the request's diagnostic payloads, f     *)
(* what ValeManager::fix returns for the first of them.                    *)
(***************************************************************************)
NoActions == [kind |-> "None"]

\* The mutant of removal_range: the range left as the diagnostic's.
removal_range_unextended(r, name) == r

\* The edit range: the alert's range, one column longer for a removal.
removal_range(r, name) ==
    IF name = "remove"
    THEN [r EXCEPT !.end.character = r.end.character + 1]
    ELSE r

\* The mutant of code_action: the alert is taken from the last diagnostic.
code_action_last_diagnostic(ds, f, b) ==
    IF ds = <<>> THEN NoActions
    ELSE IF ~f.ok THEN NoActions
    ELSE
    LET a == ds[Len(ds)]
        r == alert_to_range(a, b)
    IN  IF r = Panic THEN Panic
        ELSE IF a.action = NoName THEN NoActions
        ELSE [kind |-> "Actions",
              fixes |-> [i \in 1..Len(f.suggestions) |->
                  [title |-> make_title(a.action, a.matched, f.suggestions[i]),
                   range |-> removal_range(r, a.action),
                   new_text |-> f.suggestions[i]]]]

code_action(ds, f, b) ==
    IF ds = <<>> THEN NoActions
    ELSE IF ~f.ok THEN NoActions
    ELSE
    LET a == ds[1]
        r == alert_to_range(a, b)
    IN  IF r = Panic THEN Panic
        ELSE IF a.action = NoName THEN NoActions
        ELSE [kind |-> "Actions",
              fixes |-> [i \in 1..Len(f.suggestions) |->
                  [title |-> make_title(a.action, a.matched, f.suggestions[i]),
                   range |-> removal_range(r, a.action),
                   new_text |-> f.suggestions[i]]]]

\* on_change's loop body for one alert of the lint output.
to_diagnostic ==
    /\ diag = NotCalled
    /\ actions = NotCalled
    /\ diag' = alert_to_diagnostic(alert, build)
    /\ UNCHANGED <<concVars, build, serverVars, toolVars, textVars, indexVars, alert, fixed, actions, alert2, actions2>>

\* Another alert of the same line: its action and its span end differ.
Decoy(a) ==
    [a EXCEPT !.action = IF a.action = "remove" THEN "replace" ELSE "remove",
              !.span = <<a.span[1], a.span[2] + 1>>]

\* The diagnostic payloads of a request with n diagnostics, the first of
\* them carrying alert.
Payloads(n) ==
    IF n = 0 THEN <<>> ELSE IF n = 1 THEN <<alert>> ELSE <<alert, Decoy(alert)>>

\* A code-action request with n diagnostics.
code_action_request(n, f) ==
    /\ diag # NotCalled
    /\ actions = NotCalled
    /\ fixed' = IF n = 0 THEN NotCalled ELSE f
    /\ actions' = code_action(Payloads(n), f, build)
    /\ UNCHANGED <<concVars, build, serverVars, toolVars, textVars, indexVars, alert, diag, alert2, actions2>>

\* A second request, about an alert of the same line and span.
code_action_same_span(name, f) ==
    /\ actions # NotCalled
    /\ actions.kind = "Actions"
    /\ actions2 = NotCalled
    /\ alert2' = [alert EXCEPT !.action = name]
    /\ actions2' = code_action(<<alert2'>>, f, build)
    /\ UNCHANGED <<concVars, build, serverVars, toolVars, textVars, indexVars, alert, diag, fixed, actions>>

AlertIdle ==
    /\ diag = NotCalled
    /\ fixed = NotCalled
    /\ actions = NotCalled
    /\ alert2 = NotCalled
    /\ actions2 = NotCalled

AlertInit == alert \in Alerts /\ AlertIdle

AlertNext ==
    \/ to_diagnostic
    \/ \E n \in 1..2, f \in FixResults : code_action_request(n, f)
    \/ code_action_request(0, FixErr)
    \/ \E name \in ActionNames, f \in FixResults : code_action_same_span(name, f)

(***************************************************************************)
(* The style root (styles.rs).  A file name is a sequence of characters, a *)
(* path the sequence of names below the root.                              *)
(***************************************************************************)
MaxNodes == 5

ValeConfigName == <<".","v","a","l","e","-","c","o","n","f","i","g">>
VocabName == <<"V","o","c","a","b">>
StyleName == <<"T","e","s","t">>
RootYmlName == <<"r",".","y","m","l">>
AYmlName == <<"a",".","y","m","l">>
BYmlName == <<"b",".","y","m","l">>
CYmlName == <<"c",".","y","m","l">>
MetaName == <<"m","e","t","a",".","j","s","o","n">>
SubName == <<"s","u","b">>
Yml == <<"y","m","l">>

\* The nodes a tree is built from: the root's children, their children, and
\* one file below those.
Level1 ==
    {[path |-> <<ValeConfigName>>, dir |-> TRUE],
     [path |-> <<VocabName>>, dir |-> TRUE],
     [path |-> <<VocabName>>, dir |-> FALSE],
     [path |-> <<StyleName>>, dir |-> TRUE],
     [path |-> <<RootYmlName>>, dir |-> FALSE]}

Level2Names ==
    {[name |-> AYmlName, dir |-> FALSE], [name |-> AYmlName, dir |-> TRUE],
     [name |-> BYmlName, dir |-> FALSE], [name |-> MetaName, dir |-> FALSE],
     [name |-> SubName, dir |-> TRUE]}

Level2 ==
    {[path |-> <<d>> \o <<n.name>>, dir |-> n.dir] :
        d \in {ValeConfigName, VocabName, StyleName}, n \in Level2Names}

Level3 ==
    {[path |-> <<d, n>> \o <<CYmlName>>, dir |-> FALSE] :
        d \in {VocabName, StyleName}, n \in {AYmlName, SubName}}

Nodes == Level1 \cup Level2 \cup Level3

Parent(path) == SubSeq(path, 1, Len(path) - 1)

is_dir(tree, path) == [path |-> path, dir |-> TRUE] \in tree

Exists(tree, path) == \E n \in tree : n.path = path

\* fs::read_dir(path): the children of a directory.
read_dir(tree, path) == {n \in tree : Len(n.path) = Len(path) + 1 /\ Parent(n.path) = path}

\* StylesPath::entry_name: Path::file_name.
entry_name(path) == path[Len(path)]

\* Path::extension: the part of the file name after its last dot; none when
\* the name has no dot or its only dot is its first character.
extension(path) ==
    LET name == entry_name(path)
        dots == {i \in 1..Len(name) : name[i] = "."}
    IN  IF dots = {} THEN <<>>
        ELSE LET d == CHOOSE i \in dots : \A j \in dots : j <= i
             IN  IF d = 1 THEN <<>> ELSE SubSeq(name, d + 1, Len(name))

PathEntry(n, z, p, k) == [name |-> n, size |-> z, path |-> p, kind |-> k]

\* The entries a set of bags adds up to.
RECURSIVE BagSum(_)
BagSum(bags) ==
    IF bags = {} THEN EmptyBag
    ELSE LET b == CHOOSE x \in bags : TRUE
         IN  b (+) BagSum(bags \ {b})

\* StylesPath::index_dir: what one child of the directory contributes.
index_dir_child(tree, n, kind) ==
    IF extension(n.path) = Yml \/ (is_dir(tree, n.path) /\ kind = "Vocab")
    THEN SetToBag({PathEntry(entry_name(n.path), 0, n.path, kind)})
    ELSE EmptyBag

index_dir(tree, path, kind) ==
    BagSum({index_dir_child(tree, n, kind) : n \in read_dir(tree, path)})

\* The mutant of index_child: a style's rules are indexed, the style is not.
index_child_no_style(tree, n) ==
    LET dir_name == entry_name(n.path)
    IN  IF dir_name = ValeConfigName THEN EmptyBag
        ELSE IF dir_name = VocabName /\ is_dir(tree, n.path)
        THEN index_dir(tree, n.path, "Vocab")
        ELSE IF is_dir(tree, n.path)
        THEN index_dir(tree, n.path, "Rule")
        ELSE EmptyBag

\* The mutant of index_child: rules are looked for in every directory.
index_child_no_skip(tree, n) ==
    LET dir_name == entry_name(n.path)
    IN  IF dir_name = VocabName /\ is_dir(tree, n.path)
        THEN index_dir(tree, n.path, "Vocab")
        ELSE IF is_dir(tree, n.path)
        THEN SetToBag({PathEntry(dir_name, Cardinality(read_dir(tree, n.path)),
                                 n.path, "Style")})
             (+) index_dir(tree, n.path, "Rule")
        ELSE EmptyBag

\* StylesPath::index: what one child of the root contributes.
index_child(tree, n) ==
    LET dir_name == entry_name(n.path)
    IN  IF dir_name = ValeConfigName THEN EmptyBag
        ELSE IF dir_name = VocabName /\ is_dir(tree, n.path)
        THEN index_dir(tree, n.path, "Vocab")
        ELSE IF is_dir(tree, n.path)
        THEN SetToBag({PathEntry(dir_name, Cardinality(read_dir(tree, n.path)),
                                 n.path, "Style")})
             (+) index_dir(tree, n.path, "Rule")
        ELSE EmptyBag

\* The entries of the index, with how often each occurs; the order in which
\* read_dir yields them is the operating system's.
index(tree) == BagSum({index_child(tree, n) : n \in read_dir(tree, <<>>)})

\* The empty path of the built-in style.
NoPath == << <<>> >>

\* StylesPath::get: the entries of one kind.
get(tree, kind) ==
    LET idx == index(tree)
    IN  [e \in {x \in BagToSet(idx) : x.kind = kind} |-> CopiesIn(e, idx)]

\* StylesPath::get_styles: the built-in style, then the indexed ones.
get_styles(tree) ==
    SetToBag({PathEntry(<<"V","a","l","e">>, 4, NoPath, "Style")}) (+) get(tree, "Style")

\* A file or directory appears below the style root.
create(n) ==
    /\ entries = NotCalled
    /\ Cardinality(fs) < MaxNodes
    /\ ~Exists(fs, n.path)
    /\ Len(n.path) = 1 \/ is_dir(fs, Parent(n.path))
    /\ fs' = fs \cup {n}
    /\ UNCHANGED <<concVars, build, serverVars, toolVars, textVars, alertVars, entries, vocab, added>>

index_request ==
    /\ entries = NotCalled
    /\ entries' = [kind |-> "Ok", bag |-> index(fs), styles |-> get_styles(fs)]
    /\ UNCHANGED <<concVars, build, serverVars, toolVars, textVars, alertVars, fs, vocab, added>>

\* A file: absent, or its content.
NoFile == [exists |-> FALSE]
File(content) == [exists |-> TRUE, content |-> content]

\* accept.txt and reject.txt of the domain.
Lists == {"accept", "reject"}

VocabIdle == vocab = [k \in Lists |-> NoFile] /\ added = [k \in Lists |-> <<>>]

IndexIdle == fs = {} /\ entries = NotCalled /\ VocabIdle

IndexNext ==
    \/ \E n \in Nodes : create(n)
    \/ index_request

(***************************************************************************)
(* Vocabulary files (styles.rs: add_to_vocab).  A term and a file's        *)
(* content are sequences of characters.                                    *)
(***************************************************************************)
MaxTermLen == 2
MaxAppends == 2

LF == "\n"
CR == "\r"

VocabAlphabet == {"a", "b", LF, CR}

Terms == UNION {[1..n -> VocabAlphabet] : n \in 0..MaxTermLen}

\* The byte of a character.
Byte(c) == CASE c = LF -> 10 [] c = CR -> 13 [] c = "a" -> 97 [] c = "b" -> 98

\* Ord for str: byte by byte, a proper prefix first.
RECURSIVE str_lt(_, _)
str_lt(x, y) ==
    IF y = <<>> THEN FALSE
    ELSE IF x = <<>> THEN TRUE
    ELSE IF Byte(x[1]) # Byte(y[1]) THEN Byte(x[1]) < Byte(y[1])
    ELSE str_lt(Tail(x), Tail(y))

\* The pieces of a text between its line feeds.
RECURSIVE split_lf(_)
split_lf(text) ==
    LET feeds == {i \in 1..Len(text) : text[i] = LF}
    IN  IF feeds = {} THEN <<text>>
        ELSE LET i == CHOOSE j \in feeds : \A k \in feeds : j <= k
             IN  <<SubSeq(text, 1, i - 1)>> \o split_lf(SubSeq(text, i + 1, Len(text)))

strip_cr(l) == IF l # <<>> /\ l[Len(l)] = CR THEN SubSeq(l, 1, Len(l) - 1) ELSE l

\* str::lines: lines end at a line feed or at a carriage return and a line
\* feed; the end of the text ends the last line, and a text that is empty or
\* ends with a line feed has no line after it.
lines(text) ==
    LET pieces == split_lf(text)
        kept == IF pieces[Len(pieces)] = <<>>
                THEN SubSeq(pieces, 1, Len(pieces) - 1) ELSE pieces
    IN  [i \in 1..Len(kept) |-> strip_cr(kept[i])]

\* Where sort puts one more line among sorted ones.
RECURSIVE insert_sorted(_, _)
insert_sorted(l, sorted) ==
    IF sorted = <<>> THEN <<l>>
    ELSE IF str_lt(l, sorted[1]) THEN <<l>> \o sorted
    ELSE <<sorted[1]>> \o insert_sorted(l, Tail(sorted))

\* <[&str]>::sort
RECURSIVE sort(_)
sort(ls) == IF ls = <<>> THEN <<>> ELSE insert_sorted(ls[Len(ls)], sort(SubSeq(ls, 1, Len(ls) - 1)))

\* <[&str]>::join("\n")
RECURSIVE join(_)
join(ls) ==
    IF ls = <<>> THEN <<>>
    ELSE IF Len(ls) = 1 THEN ls[1]
    ELSE ls[1] \o <<LF>> \o join(Tail(ls))

\* The content add_to_vocab writes.
rewritten(content, term) == join(sort(Append(lines(content), term)))

\* StylesPath::add_to_vocab on the list's file; a missing file is an error
\* and nothing is written.
add_to_vocab(k, term) ==
    /\ Len(added["accept"]) + Len(added["reject"]) < MaxAppends
    /\ IF vocab[k].exists
       THEN /\ vocab' = [vocab EXCEPT ![k] = File(rewritten(vocab[k].content, term))]
            /\ added' = [added EXCEPT ![k] = Append(@, term)]
       ELSE UNCHANGED <<vocab, added>>
    /\ UNCHANGED <<concVars, build, serverVars, toolVars, textVars, alertVars, fs, entries>>

add_to_accept(term) == add_to_vocab("accept", term)

add_to_reject(term) == add_to_vocab("reject", term)

\* The lists start empty, or missing.
VocabInit ==
    /\ vocab \in [Lists -> {NoFile, File(<<>>)}]
    /\ added = [k \in Lists |-> <<>>]

VocabNext ==
    \/ \E t \in Terms : add_to_accept(t)
    \/ \E t \in Terms : add_to_reject(t)

(***************************************************************************)
(* The tool manager (vale.rs).  Versions are numbered; two versions are    *)
(* equal as semantic versions exactly when their numbers are.              *)
(***************************************************************************)
MaxVersion == 2

Versions == 1..MaxVersion

NoExe == [exists |-> FALSE]
Exe(v) == [exists |-> TRUE, version |-> v]
Exes == {NoExe} \cup {Exe(v) : v \in Versions}

Ok(v) == [ok |-> TRUE, value |-> v]
Err(kind, msg) == [ok |-> FALSE, kind |-> kind, msg |-> msg]

NotInstalled == Err("Msg", "Vale is not installed.")
UpToDate == "Vale is up to date."
Installed(v) == <<"Vale v", v, " installed.">>

\* One Command::new(exe) with its first argument.
Spawn(exe, arg) == [exe |-> exe, arg |-> arg]

\* ValeManager::is_installed
is_installed(m, f) == m.exists \/ f.exists

\* The mutant of exe_path: the system copy is preferred.
exe_path_fallback_first(m, f, managed_only) ==
    IF f.exists /\ ~managed_only THEN Ok("fallback")
    ELSE IF m.exists THEN Ok("managed")
    ELSE NotInstalled

\* ValeManager::exe_path
exe_path(m, f, managed_only) ==
    IF m.exists THEN Ok("managed")
    ELSE IF f.exists /\ ~managed_only THEN Ok("fallback")
    ELSE NotInstalled

\* The version banner of the executable exe_path chose.
BannerOf(m, f, which) == IF which = "managed" THEN m.version ELSE f.version

\* What a call of the manager did: its result, the processes it spawned and
\* the version it downloaded and unpacked (0 downloads: <<>>).
Done(result, spawned, downloaded) ==
    [result |-> result, spawned |-> spawned, downloaded |-> downloaded]

\* ValeManager::version.  spawn_ok: the process could be started.
version(m, f, managed_only, spawn_ok) ==
    LET exe == exe_path(m, f, managed_only)
    IN  IF ~exe.ok THEN Done(exe, <<>>, <<>>)
        ELSE IF ~spawn_ok
        THEN Done(Err("Io", "spawn"), <<Spawn(exe.value, "-v")>>, <<>>)
        ELSE Done(Ok(BannerOf(m, f, exe.value)), <<Spawn(exe.value, "-v")>>, <<>>)

\* ValeManager::fetch_version.  net_ok: the release index answered.
fetch_version(remote, net_ok) ==
    IF net_ok THEN Ok(remote) ELSE Err("Http", "fetch")

None == [some |-> FALSE]
Some(v) == [some |-> TRUE, value |-> v]

\* The mutant of newer_version: the installed version is not compared.
newer_version_uncompared(m, f, remote, net_ok, spawn_ok) ==
    LET fetched == fetch_version(remote, net_ok)
        current == version(m, f, TRUE, spawn_ok)
    IN  IF ~fetched.ok THEN Done(fetched, <<>>, <<>>)
        ELSE Done(Ok(Some(fetched.value)), current.spawned, <<>>)

\* ValeManager::newer_version: the latest version when it is not the one
\* installed, or when the installed one cannot be probed.
newer_version(m, f, remote, net_ok, spawn_ok) ==
    LET fetched == fetch_version(remote, net_ok)
        current == version(m, f, TRUE, spawn_ok)
    IN  IF ~fetched.ok THEN Done(fetched, <<>>, <<>>)
        ELSE IF current.result.ok
        THEN IF fetched.value # current.result.value
             THEN Done(Ok(Some(fetched.value)), current.spawned, <<>>)
             ELSE Done(Ok(None), current.spawned, <<>>)
        ELSE Done(Ok(Some(fetched.value)), current.spawned, <<>>)

\* ValeManager::install_or_update.  dl_ok: the archive could be downloaded.
install_or_update(m, f, remote, net_ok, spawn_ok, dl_ok) ==
    LET newer == newer_version(m, f, remote, net_ok, spawn_ok)
    IN  IF ~newer.result.ok THEN newer
        ELSE IF newer.result.value.some
        THEN IF dl_ok
             THEN Done(Ok(Installed(newer.result.value.value)), newer.spawned,
                       <<newer.result.value.value>>)
             ELSE Done(Err("Http", "download"), newer.spawned, <<>>)
        ELSE Done(Ok(UpToDate), newer.spawned, <<>>)

\* The managed executable after the call: ValeManager::install unpacks the
\* release archive of the downloaded version over managed_bin.
managed_after(m, done) ==
    IF done.downloaded # <<>> THEN Exe(done.downloaded[1]) ELSE m

(***************************************************************************)
(* Output of a lint process, and ValeManager::parse_output.                *)
(***************************************************************************)
MaxAlerts == 2
MaxFiles == 2

\* The alerts lint outputs are built from: one well-formed, one on line 0.
LintAlerts ==
    {[line |-> 1, span |-> <<1, 2>>, action |-> "replace", matched |-> "teh",
      check |-> "Vale.Spelling", severity |-> "warning"],
     [line |-> 0, span |-> <<1, 1>>, action |-> NoName, matched |-> "teh",
      check |-> "Vale.Spelling", severity |-> "warning"]}

AlertLists == UNION {[1..n -> LintAlerts] : n \in 0..MaxAlerts}

FileKeys == {"doc.md", "other.md"}

\* A parsed lint output: the files in the order the map yields them, each
\* with its alerts.
LintMaps ==
    {m \in UNION {[1..n -> [file : FileKeys, alerts : AlertLists]] : n \in 0..MaxFiles} :
        \A i, j \in DOMAIN m : i # j => m[i].file # m[j].file}

\* A standard error stream that is not UTF-8.
NotUtf8 == "<not UTF-8>"

\* What a process wrote: standard output is empty, not UTF-8, not JSON for
\* the expected type, or a lint map; stderr is some text, or bytes that are
\* not UTF-8; code its exit code.
Outputs ==
    [stdout : {[kind |-> "empty"], [kind |-> "nonutf8"], [kind |-> "malformed"]},
     stderr : {"E100"}, code : {0, 2}]
    \cup [stdout : {[kind |-> "json", value |-> m] : m \in LintMaps},
          stderr : {""}, code : {0, 1}]
    \cup [stdout : {[kind |-> "empty"], [kind |-> "json", value |-> <<>>]},
          stderr : {NotUtf8}, code : {0, 2}]

\* A process that wrote an error message only; also the output recorded for
\* a process that could not be started.
NoOutput == [stdout |-> [kind |-> "empty"], stderr |-> "E100", code |-> 0]

\* The mutant of parse_output: a failed exit status is an error of its own.
parse_output_exit_status(out) ==
    IF out.stdout.kind = "nonutf8" THEN Err("Utf8", "stdout")
    ELSE IF out.stderr = NotUtf8 THEN Err("Utf8", "stderr")
    ELSE IF out.code # 0 THEN Err("Msg", out.stderr)
    ELSE IF out.stdout.kind = "empty" THEN Err("Msg", out.stderr)
    ELSE IF out.stdout.kind = "malformed" THEN Err("Json", "stdout")
    ELSE Ok(out.stdout.value)

\* ValeManager::parse_output
parse_output(out) ==
    IF out.stdout.kind = "nonutf8" THEN Err("Utf8", "stdout")
    ELSE IF out.stderr = NotUtf8 THEN Err("Utf8", "stderr")
    ELSE IF out.stdout.kind = "empty" THEN Err("Msg", out.stderr)
    ELSE IF out.stdout.kind = "malformed" THEN Err("Json", "stdout")
    ELSE Ok(out.stdout.value)

\* ValeManager::run
run(m, f, spawn_ok, out) ==
    LET exe == exe_path(m, f, FALSE)
    IN  IF ~exe.ok THEN Done(exe, <<>>, <<>>)
        ELSE IF ~spawn_ok
        THEN Done(Err("Io", "spawn"), <<Spawn(exe.value, "--output=JSON")>>, <<>>)
        ELSE Done(parse_output(out), <<Spawn(exe.value, "--output=JSON")>>, <<>>)

\* What the fix process wrote to standard output: nothing, bytes that are
\* not UTF-8, text that is not a ValeFix, or a ValeFix.
FixOutputs ==
    {[kind |-> "empty"], [kind |-> "nonutf8"], [kind |-> "malformed"]}
    \cup {[kind |-> "fix", value |-> sugg] : sugg \in Suggestions}

AlertPayloads == {"alert1", "alert2"}

\* The environment of one fix call: whether the temporary file could be
\* created and written, whether the process started, and what it wrote.
\* A step that was not reached has no outcome of its own.
FixEnvs ==
    {e \in [create_ok : BOOLEAN, write_ok : BOOLEAN, spawn_ok : BOOLEAN, stdout : FixOutputs] :
        /\ ~e.create_ok => ~e.write_ok
        /\ ~e.write_ok => ~e.spawn_ok
        /\ ~e.spawn_ok => e.stdout.kind = "empty"}

\* A temporary file holding content; a failed write leaves it empty.
TempFile(content) == [content |-> content]

\* What a call of fix did: its result, the temporary file it created (none:
\* <<>>), the files it left behind and the processes it spawned.
FixDone(result, created, left, spawned) ==
    [result |-> result, created |-> created, left |-> left, spawned |-> spawned]

\* Drop of the NamedTempFile when fix returns: the file is deleted.
drop(file) == {}

\* The mutant of fix: the file is deleted only before a successful return.
fix_removed_on_success(m, f, payload, env) ==
    IF ~env.create_ok THEN FixDone(Err("Io", "create"), <<>>, {}, <<>>)
    ELSE IF ~env.write_ok
    THEN FixDone(Err("Io", "write"), <<TempFile("")>>, {TempFile("")}, <<>>)
    ELSE
    LET file == TempFile(payload)
        exe == exe_path(m, f, FALSE)
    IN  IF ~exe.ok THEN FixDone(exe, <<file>>, {file}, <<>>)
        ELSE
        LET spawned == <<Spawn(exe.value, "fix")>>
        IN  IF ~env.spawn_ok THEN FixDone(Err("Io", "spawn"), <<file>>, {file}, spawned)
            ELSE IF env.stdout.kind = "nonutf8"
            THEN FixDone(Err("Utf8", "stdout"), <<file>>, {file}, spawned)
            ELSE IF env.stdout.kind \in {"empty", "malformed"}
            THEN FixDone(Err("Json", "stdout"), <<file>>, {file}, spawned)
            ELSE FixDone(Ok(env.stdout.value), <<file>>, drop(file), spawned)

\* ValeManager::fix
fix(m, f, payload, env) ==
    IF ~env.create_ok THEN FixDone(Err("Io", "create"), <<>>, {}, <<>>)
    ELSE IF ~env.write_ok
    THEN FixDone(Err("Io", "write"), <<TempFile("")>>, drop(TempFile("")), <<>>)
    ELSE
    LET file == TempFile(payload)
        exe == exe_path(m, f, FALSE)
    IN  IF ~exe.ok THEN FixDone(exe, <<file>>, drop(file), <<>>)
        ELSE
        LET spawned == <<Spawn(exe.value, "fix")>>
        IN  IF ~env.spawn_ok THEN FixDone(Err("Io", "spawn"), <<file>>, drop(file), spawned)
            ELSE IF env.stdout.kind = "nonutf8"
            THEN FixDone(Err("Utf8", "stdout"), <<file>>, drop(file), spawned)
            ELSE IF env.stdout.kind \in {"empty", "malformed"}
            THEN FixDone(Err("Json", "stdout"), <<file>>, drop(file), spawned)
            ELSE FixDone(Ok(env.stdout.value), <<file>>, drop(file), spawned)

\* The event log keeps the last two events.
Logged(events, e) == IF Len(events) < 2 THEN Append(events, e) ELSE <<events[2], e>>

Event(op, env, done) == [op |-> op, env |-> env, done |-> done]

NoDone == Done(Ok("-"), <<>>, <<>>)

\* A call of install_or_update (server.rs: Backend::init).
install_or_update_call(net_ok, spawn_ok, dl_ok) ==
    LET done == install_or_update(managed, fallback, latest, net_ok, spawn_ok, dl_ok)
    IN  /\ managed' = managed_after(managed, done)
        /\ ops' = Logged(ops, Event("install_or_update",
                                    [net_ok |-> net_ok, spawn_ok |-> spawn_ok,
                                     latest |-> latest, before |-> managed], done))
        /\ UNCHANGED <<concVars, build, serverVars, textVars, alertVars, indexVars, fallback, latest, tmp>>

\* A call of run, the lint invocation.
run_call(spawn_ok, out) ==
    /\ ops' = Logged(ops, Event("run", [spawn_ok |-> spawn_ok, out |-> out],
                                run(managed, fallback, spawn_ok, out)))
    /\ UNCHANGED <<concVars, build, serverVars, textVars, alertVars, indexVars, managed, fallback, latest, tmp>>

\* A call of fix (server.rs: Backend::code_action).
fix_call(payload, env) ==
    LET done == fix(managed, fallback, payload, env)
    IN  /\ tmp' = tmp \cup done.left
        /\ ops' = Logged(ops, Event("fix", env, done))
        /\ UNCHANGED <<concVars, build, serverVars, textVars, alertVars, indexVars, managed, fallback, latest>>

\* A new release is published.
release ==
    /\ latest < MaxVersion
    /\ latest' = latest + 1
    /\ ops' = Logged(ops, Event("release", [latest |-> latest'], NoDone))
    /\ UNCHANGED <<concVars, build, serverVars, textVars, alertVars, indexVars, managed, fallback, tmp>>

\* The managed installation is deleted from outside.
remove_managed ==
    /\ managed.exists
    /\ managed' = NoExe
    /\ ops' = Logged(ops, Event("remove_managed", [latest |-> latest], NoDone))
    /\ UNCHANGED <<concVars, build, serverVars, textVars, alertVars, indexVars, fallback, latest, tmp>>

ToolIdle == managed = NoExe /\ fallback = NoExe /\ latest = 1 /\ ops = <<>> /\ tmp = {}

ToolInit ==
    /\ managed \in Exes
    /\ fallback \in Exes
    /\ latest \in Versions
    /\ ops = <<>>
    /\ tmp = {}

\* The lint outputs the manager alone is run on.
ToolOutputs ==
    {o \in Outputs :
        o.stdout.kind = "json" =>
            /\ Len(o.stdout.value) <= 1
            /\ \A i \in DOMAIN o.stdout.value : Len(o.stdout.value[i].alerts) <= 1}

FixNext ==
    \/ \E a \in AlertPayloads, e \in FixEnvs : fix_call(a, e)
    \/ remove_managed

ToolNext ==
    \/ \E n, p, d \in BOOLEAN : install_or_update_call(n, p, d)
    \/ \E o \in ToolOutputs : run_call(TRUE, o)
    \/ run_call(FALSE, NoOutput)
    \/ release
    \/ remove_managed

(***************************************************************************)
(* The document session (server.rs).  A URI is its scheme and its path, a  *)
(* path a sequence of characters.                                          *)
(***************************************************************************)
IniPath == <<"/","w","/",".","v","a","l","e",".","i","n","i">>
RulePath == <<"/","s","1","/","T","e","s","t","/","a",".","y","m","l">>
DocPath == <<"/","w","/","d","o","c",".","m","d">>

Uri(scheme, path) == [scheme |-> scheme, path |-> path]

URIs ==
    {Uri("file", IniPath), Uri("file", RulePath), Uri("file", DocPath),
     Uri("untitled", IniPath)}

\* The style roots the tool's configuration can name.
Roots == {<<"/","s","1">>, <<"/","s","2">>}

DocTexts == {"v1", "v2"}

NoDoc == "<absent>"

\* str::contains
Contains(text, part) ==
    \E i \in 1..(Len(text) - Len(part) + 1) :
        SubSeq(text, i, i + Len(part) - 1) = part

\* path.split('.').last(): what follows the last dot, or the whole path.
last_split(path) ==
    LET dots == {i \in 1..Len(path) : path[i] = "."}
    IN  IF dots = {} THEN path
        ELSE SubSeq(path, (CHOOSE i \in dots : \A j \in dots : j <= i) + 1, Len(path))

\* StylesPath::has: the path lies under the root.
has(root, path) ==
    /\ Len(path) > Len(root) + 1
    /\ SubSeq(path, 1, Len(root) + 1) = root \o <<"/">>

\* What the ls-config process does: it cannot be started, or writes
\* something that is not a configuration, or writes the configuration.
ConfigOutcomes == {"spawn_failed", "malformed", "ok"}

\* ValeManager::config
config(m, f, outcome, styles) ==
    LET exe == exe_path(m, f, FALSE)
    IN  IF ~exe.ok THEN exe
        ELSE IF outcome = "spawn_failed" THEN Err("Io", "spawn")
        ELSE IF outcome = "malformed" THEN Err("Json", "stdout")
        ELSE Ok(styles)

\* The path of the URI names a .vale.ini; failing that, it ends in "yml".
IsIni(uri) == Contains(uri.path, <<".","v","a","l","e",".","i","n","i">>)

IsYml(uri) == ~IsIni(uri) /\ last_split(uri.path) = Yml

\* What get_ext did besides answering: the ls-config process it started,
\* and the result of config (NotCalled when it was not asked).
Classifying(uri, m, f, outcome, styles) ==
    [spawned |-> IF IsYml(uri) /\ exe_path(m, f, FALSE).ok
                 THEN <<Spawn(exe_path(m, f, FALSE).value, "ls-config")>> ELSE <<>>,
     config |-> IF IsYml(uri) THEN config(m, f, outcome, styles) ELSE NotCalled]

\* The mutant of get_ext: a path ending in "yml" is a rule's.
get_ext_by_name(uri, m, f, outcome, styles) ==
    IF Contains(uri.path, <<".","v","a","l","e",".","i","n","i">>) THEN "ini"
    ELSE IF last_split(uri.path) = Yml THEN "yml"
    ELSE ""

\* Backend::get_ext: "ini", "yml" or "" (none).
get_ext(uri, m, f, outcome, styles) ==
    IF Contains(uri.path, <<".","v","a","l","e",".","i","n","i">>) THEN "ini"
    ELSE IF last_split(uri.path) = Yml
    THEN LET cfg == config(m, f, outcome, styles)
         IN  IF cfg.ok /\ has(cfg.value, uri.path) THEN "yml" ELSE ""
    ELSE ""

\* The mutant of update: the text is stored whatever the URI is.
update_unguarded(map, uri, text, ext) == [map EXCEPT ![uri] = text]

\* Backend::update: the document map after the call.
update(map, uri, text, ext) ==
    IF ext # "" THEN [map EXCEPT ![uri] = text] ELSE map

\* The alerts of a lint map, file after file.
RECURSIVE flatten(_)
flatten(m) == IF m = <<>> THEN <<>> ELSE m[1].alerts \o flatten(Tail(m))

\* The mutant of diagnostics_of: the last alert is left out.
diagnostics_of_all_but_last(m, b) ==
    LET alerts == flatten(m)
    IN  [i \in 1..(IF alerts = <<>> THEN 0 ELSE Len(alerts) - 1) |->
            alert_to_diagnostic(alerts[i], b)]

\* Backend::on_change: one diagnostic per alert of every file of the result.
diagnostics_of(m, b) ==
    LET alerts == flatten(m)
    IN  [i \in 1..Len(alerts) |-> alert_to_diagnostic(alerts[i], b)]

\* A lint process that reports nothing.
CleanOutput == [stdout |-> [kind |-> "json", value |-> <<>>], stderr |-> "", code |-> 0]

\* What a handler did: the calls it made, in order; the lint call's outcome
\* (or NotCalled); the publishDiagnostics calls; the messages it sent to the
\* client's log; whether it panicked.
Handled(handler, uri, calls, lint, published, log, panicked) ==
    [handler |-> handler, uri |-> uri, calls |-> calls, lint |-> lint,
     published |-> published, log |-> log, panicked |-> panicked]

NotInstalledWarning == "WARNING: Vale CLI not installed!"
ParsingError == "ERROR: Parsing error"
FilePathError == "ERROR: File path error"

\* The mutant of lint_and_publish: the warning is logged once only.
lint_and_publish_warn_once(handler, uri, spawn_ok, out) ==
    IF is_installed(managed, fallback) /\ uri.scheme = "file"
    THEN LET done == run(managed, fallback, spawn_ok, out)
         IN  IF done.result.ok
             THEN LET ds == diagnostics_of(done.result.value, build)
                  IN  IF \E i \in DOMAIN ds : ds[i] = Panic
                      THEN Handled(handler, uri, <<"update", "run">>, done, <<>>, <<>>, TRUE)
                      ELSE Handled(handler, uri,
                                   <<"update", "run", "publish_diagnostics">>, done,
                                   <<[uri |-> uri, diagnostics |-> ds]>>, <<>>, FALSE)
             ELSE Handled(handler, uri, <<"update", "run">>, done, <<>>,
                          <<ParsingError>>, FALSE)
    ELSE IF ~is_installed(managed, fallback)
    THEN Handled(handler, uri, <<"update">>, NotCalled, <<>>,
                 IF warnings = 0 THEN <<NotInstalledWarning>> ELSE <<>>, FALSE)
    ELSE Handled(handler, uri, <<"update">>, NotCalled, <<>>, <<FilePathError>>, FALSE)

\* Backend::on_change: its update, then lint and publish.
lint_and_publish(handler, uri, spawn_ok, out) ==
    IF is_installed(managed, fallback) /\ uri.scheme = "file"
    THEN LET done == run(managed, fallback, spawn_ok, out)
         IN  IF done.result.ok
             THEN LET ds == diagnostics_of(done.result.value, build)
                  IN  IF \E i \in DOMAIN ds : ds[i] = Panic
                      THEN Handled(handler, uri, <<"update", "run">>, done, <<>>, <<>>, TRUE)
                      ELSE Handled(handler, uri,
                                   <<"update", "run", "publish_diagnostics">>, done,
                                   <<[uri |-> uri, diagnostics |-> ds]>>, <<>>, FALSE)
             ELSE Handled(handler, uri, <<"update", "run">>, done, <<>>,
                          <<ParsingError>>, FALSE)
    ELSE IF ~is_installed(managed, fallback)
    THEN Handled(handler, uri, <<"update">>, NotCalled, <<>>,
                 <<NotInstalledWarning>>, FALSE)
    ELSE Handled(handler, uri, <<"update">>, NotCalled, <<>>, <<FilePathError>>, FALSE)

\* The text a handler passed to update, the kind get_ext gave there, and
\* whether the tool was installed then.
Updating(h, text, ext) ==
    h @@ [text |-> text, ext |-> ext, has_cli |-> is_installed(managed, fallback)]

\* The same, with what the classification of the URI did.
Classified(h, outcome) ==
    h @@ Classifying(h.uri, managed, fallback, outcome, styles_path)

\* The count of warnings is kept up to this number.
MaxWarnings == 2

\* The handler logged that the tool is not installed.
Warned(h) == NotInstalledWarning \in {h.log[i] : i \in DOMAIN h.log}

\* Backend::on_change
on_change(handler, uri, text, outcome, spawn_ok, out) ==
    LET ext == get_ext(uri, managed, fallback, outcome, styles_path)
    IN  /\ document_map' = update(document_map, uri, text, ext)
        /\ stored_as' = IF document_map'[uri] # document_map[uri] \/ ext # ""
                        THEN [stored_as EXCEPT ![uri] = ext]
                        ELSE stored_as
        /\ handled' = Classified(Updating(lint_and_publish(handler, uri, spawn_ok, out),
                                          text, ext), outcome)
        /\ warnings' = IF Warned(handled') /\ warnings < MaxWarnings
                       THEN warnings + 1 ELSE warnings
        /\ UNCHANGED <<concVars, build, textVars, alertVars, indexVars, toolVars, styles_path>>

\* Backend::did_open
did_open(uri, text, outcome, spawn_ok, out) ==
    on_change("did_open", uri, text, outcome, spawn_ok, out)

\* Backend::did_save; without the text in the notification it does nothing.
did_save(uri, text, outcome, spawn_ok, out) ==
    on_change("did_save", uri, text, outcome, spawn_ok, out)

did_save_without_text(uri) ==
    /\ handled' = Handled("did_save", uri, <<>>, NotCalled, <<>>, <<>>, FALSE)
    /\ UNCHANGED <<concVars, build, textVars, alertVars, indexVars, toolVars,
                   document_map, styles_path, stored_as, warnings>>

\* The mutant of did_change: the change runs the whole pipeline.
did_change_linting(uri, text, outcome) ==
    on_change("did_change", uri, text, outcome, TRUE, CleanOutput)

\* Backend::did_change: the update alone.
did_change(uri, text, outcome) ==
    LET ext == get_ext(uri, managed, fallback, outcome, styles_path)
    IN  /\ document_map' = update(document_map, uri, text, ext)
        /\ stored_as' = IF document_map'[uri] # document_map[uri] \/ ext # ""
                        THEN [stored_as EXCEPT ![uri] = ext]
                        ELSE stored_as
        /\ handled' = Classified(Updating(Handled("did_change", uri, <<"update">>, NotCalled,
                                                  <<>>, <<>>, FALSE), text, ext), outcome)
        /\ UNCHANGED <<concVars, build, textVars, alertVars, indexVars, toolVars, styles_path, warnings>>

\* textDocument/didClose: Backend does not implement it, and the default of
\* the LanguageServer trait does nothing to the server's state.
did_close(uri) ==
    /\ handled' = Handled("did_close", uri, <<>>, NotCalled, <<>>, <<>>, FALSE)
    /\ UNCHANGED <<concVars, build, textVars, alertVars, indexVars, toolVars,
                   document_map, styles_path, stored_as, warnings>>

\* What a request handler did: the kind get_ext gave, the document it found
\* in the map (or NoDoc), and its answer: "None", "Some" or "Panic".
Queried(handler, uri, ext, found, answer) ==
    Handled(handler, uri, <<>>, NotCalled, <<>>, <<>>, answer = "Panic")
        @@ [ext |-> ext, found |-> found, answer |-> answer]

\* What the request's position is in the document found: outside its text,
\* on nothing the handler has an answer for, or on something it has.
Places == {"outside", "blank", "info"}

\* Backend::hover
hover_answer(uri, ext, found, place) ==
    IF found = NoDoc THEN "None"
    ELSE IF place = "outside" THEN "Panic"
    ELSE IF place = "blank" THEN "None"
    ELSE IF ext = "ini" THEN "Some"
    ELSE IF ext = "yml" /\ uri.scheme = "file" THEN "Some"
    ELSE "None"

\* Backend::completion
completion_answer(uri, ext, found, place, cfg) ==
    IF found = NoDoc THEN "None"
    ELSE IF place = "outside" THEN "Panic"
    ELSE IF ~cfg.ok THEN "None"
    ELSE IF ext = "ini" THEN IF place = "info" THEN "Some" ELSE "None"
    ELSE IF ext = "yml"
    THEN IF uri.scheme # "file" THEN "Panic"
         ELSE IF place = "info" THEN "Some" ELSE "None"
    ELSE "None"

\* Backend::document_link
document_link_answer(uri, ext, found, place) ==
    IF ext = "yml" /\ found # NoDoc
    THEN IF uri.scheme # "file" THEN "Panic"
         ELSE IF place = "info" THEN "Some" ELSE "None"
    ELSE "None"

query(handler, uri, ext, answer) ==
    /\ handled' = Queried(handler, uri, ext, document_map[uri], answer)
    /\ UNCHANGED <<concVars, build, textVars, alertVars, indexVars, toolVars,
                   document_map, styles_path, stored_as, warnings>>

hover(uri, outcome, place) ==
    LET ext == get_ext(uri, managed, fallback, outcome, styles_path)
    IN  query("hover", uri, ext, hover_answer(uri, ext, document_map[uri], place))

completion(uri, outcome, place) ==
    LET ext == get_ext(uri, managed, fallback, outcome, styles_path)
    IN  query("completion", uri, ext,
              completion_answer(uri, ext, document_map[uri], place,
                                config(managed, fallback, outcome, styles_path)))

document_link(uri, outcome, place) ==
    LET ext == get_ext(uri, managed, fallback, outcome, styles_path)
    IN  query("document_link", uri, ext,
              document_link_answer(uri, ext, document_map[uri], place))

\* The tool's configuration is edited: its StylesPath names another root.
set_styles_path(root) ==
    /\ root # styles_path
    /\ styles_path' = root
    /\ UNCHANGED <<concVars, build, textVars, alertVars, indexVars, toolVars,
                   document_map, stored_as, handled, warnings>>

\* The managed executable appears (an install) or disappears.
toggle_managed ==
    /\ managed' = IF managed.exists THEN NoExe ELSE Exe(1)
    /\ warnings' = 0
    /\ UNCHANGED <<concVars, build, textVars, alertVars, indexVars, document_map, styles_path,
                   stored_as, handled, fallback, latest, ops, tmp>>

ServerIdle ==
    /\ document_map = [u \in URIs |-> NoDoc]
    /\ styles_path = <<"/","s","1">>
    /\ stored_as = [u \in URIs |-> ""]
    /\ handled = NotCalled
    /\ warnings = 0

\* The lint outputs the server is run on: two of the failures, and the lint
\* maps in which only a file's last alert may be the one on line 0, a single
\* file is doc.md, and two files have one well-formed alert each.
ServerMaps ==
    {m \in LintMaps :
        /\ \A i \in DOMAIN m : \A k \in DOMAIN m[i].alerts :
               k < Len(m[i].alerts) => OneBased(m[i].alerts[k])
        /\ Len(m) >= 1 => m[1].alerts # <<>>
        /\ Len(m) = 1 => m[1].file = "doc.md"
        /\ Len(m) > 1 => \A i \in DOMAIN m :
               Len(m[i].alerts) = 1 /\ OneBased(m[i].alerts[1])}

ServerOutputs ==
    {o \in Outputs :
        /\ o.code = 0
        /\ o.stdout.kind # "nonutf8"
        /\ o.stderr # NotUtf8
        /\ o.stdout.kind = "json" => o.stdout.value \in ServerMaps}

\* The ls-config outcomes that matter to a notification about uri: the
\* process is started only for a path ending in "yml", with an executable.
ConfigChoices(u) ==
    IF get_ext(u, managed, fallback, "ok", styles_path)
         # get_ext(u, managed, fallback, "malformed", styles_path)
    THEN ConfigOutcomes ELSE {"ok"}

\* The lint processes that matter to a notification about uri: none is
\* started without an executable or for a URI that is not a file's.
LintChoices(u) ==
    IF is_installed(managed, fallback) /\ u.scheme = "file"
    THEN {<<FALSE, NoOutput>>} \cup {<<TRUE, o>> : o \in ServerOutputs}
    ELSE {<<FALSE, NoOutput>>}

\* The document session: every notification and request, the lint finding
\* nothing, and the changes of the configuration around them.
ServerNext ==
    \/ \E u \in URIs, t \in DocTexts : \E c \in ConfigChoices(u) :
          did_open(u, t, c, TRUE, CleanOutput)
    \/ \E u \in URIs, t \in DocTexts : \E c \in ConfigChoices(u) :
          did_save(u, t, c, TRUE, CleanOutput)
    \/ \E u \in URIs : did_save_without_text(u)
    \/ \E u \in URIs, t \in DocTexts : \E c \in ConfigChoices(u) : did_change(u, t, c)
    \/ \E u \in URIs : did_close(u)
    \/ \E u \in URIs, place \in Places : \E c \in ConfigChoices(u) : hover(u, c, place)
    \/ \E u \in URIs, place \in Places : \E c \in ConfigChoices(u) : completion(u, c, place)
    \/ \E u \in URIs, place \in Places : \E c \in ConfigChoices(u) : document_link(u, c, place)
    \/ \E r \in Roots : set_styles_path(r)
    \/ toggle_managed

\* The diagnostics pipeline: the notifications with every lint outcome, one
\* text, and the tool appearing and disappearing.
LintNext ==
    \/ \E u \in URIs : \E c \in ConfigChoices(u), l \in LintChoices(u) :
          did_open(u, "v1", c, l[1], l[2])
    \/ \E u \in URIs : \E c \in ConfigChoices(u), l \in LintChoices(u) :
          did_save(u, "v1", c, l[1], l[2])
    \/ \E u \in URIs : did_save_without_text(u)
    \/ \E u \in URIs : \E c \in ConfigChoices(u) : did_change(u, "v1", c)
    \/ toggle_managed

\* The alert of the specifications that are not about alerts.
NoAlert == [line |-> 1, span |-> <<1, 1>>, action |-> NoName,
            matched |-> "teh", check |-> "Vale.Spelling", severity |-> "warning"]

(***************************************************************************)
(* Handlers in flight at once (server.rs).  A handler is a future: it runs *)
(* from one wait to the next, and other futures run while it waits on a    *)
(* subprocess or on the client.  document_map is a DashMap: a Ref returned *)
(* by get holds the read lock of the key's shard until it is dropped, and  *)
(* insert takes the write lock of the shard.                               *)
(***************************************************************************)
MaxTasks == 2
MaxReceived == 3

TaskIds == 1..MaxTasks

Shards == {"shard1", "shard2"}

\* The URIs of the concurrent session: two documents get_ext classifies
\* without starting a process, one of them a file.
AsyncURIs == {Uri("file", IniPath), Uri("untitled", IniPath)}

NoTask == [pc |-> "idle"]

NoDiagnostics == [seq |-> 0, diagnostics |-> <<>>]

ConcIdle ==
    /\ tasks = [t \in TaskIds |-> NoTask]
    /\ received = 0
    /\ client = [u \in URIs |-> NoDiagnostics]
    /\ sent = <<>>
    /\ readers = [s \in Shards |-> {}]
    /\ shard_of = [u \in URIs |-> "shard1"]
    /\ writers = <<>>

\* The lint outcomes of the concurrent session: nothing found, one alert,
\* an error message only, and output that is not JSON.
OneAlertOutput ==
    [stdout |-> [kind |-> "json",
                 value |-> <<[file |-> "doc.md",
                              alerts |-> <<CHOOSE a \in LintAlerts : a.line = 1>>]>>],
     stderr |-> "", code |-> 1]

MalformedOutput == [stdout |-> [kind |-> "malformed"], stderr |-> "E100", code |-> 2]

AsyncOutputs == {CleanOutput, OneAlertOutput, NoOutput, MalformedOutput}

\* A call to the client, or a response, made for the seq-th message received.
Call(call, uri, seq, payload) == [call |-> call, uri |-> uri, seq |-> seq, payload |-> payload]

Task(pc, handler, uri, text, seq, has_cli, result) ==
    [pc |-> pc, handler |-> handler, uri |-> uri, text |-> text, seq |-> seq,
     has_cli |-> has_cli, result |-> result]

At(t, handler, pc) == tasks[t].pc = pc /\ tasks[t].handler = handler

Moved(t, pc, result) == tasks' = [tasks EXCEPT ![t] = [@ EXCEPT !.pc = pc, !.result = result]]

\* The future completes; every Ref it holds is dropped.
Returned(t) ==
    /\ tasks' = [tasks EXCEPT ![t] = NoTask]
    /\ readers' = [s \in Shards |-> readers[s] \ {t}]

\* The result of a handler that ran no lint: the message it logs instead.
NotRun(msg) == Err("NotRun", msg)

asyncFrame ==
    UNCHANGED <<build, textVars, alertVars, indexVars, toolVars, styles_path,
                handled, warnings, shard_of, writers>>

\* A notification or request arrives and its handler future is created.
\* on_change reads is_installed before anything else.  The future takes
\* the first free slot.
receive(t, handler, uri, text) ==
    /\ tasks[t] = NoTask
    /\ \A t2 \in 1..(t - 1) : tasks[t2] # NoTask
    /\ received < MaxReceived
    /\ received' = received + 1
    /\ tasks' = [tasks EXCEPT ![t] =
           Task(IF handler = "on_change" THEN "update" ELSE "get",
                handler, uri, text, received + 1,
                is_installed(managed, fallback), NotCalled)]
    /\ asyncFrame
    /\ UNCHANGED <<document_map, stored_as, client, sent, readers>>

\* Backend::on_change up to the lint invocation: update.  The insert waits
\* for the write lock of the shard.
on_change_update(t) ==
    LET k == tasks[t]
        ext == get_ext(k.uri, managed, fallback, "ok", styles_path)
    IN  /\ At(t, "on_change", "update")
        /\ ext # "" => readers[shard_of[k.uri]] = {}
        /\ document_map' = update(document_map, k.uri, k.text, ext)
        /\ stored_as' = IF ext # "" THEN [stored_as EXCEPT ![k.uri] = ext] ELSE stored_as
        /\ Moved(t, IF k.has_cli /\ k.uri.scheme = "file" THEN "run" ELSE "log",
                 IF ~k.has_cli THEN NotRun(NotInstalledWarning) ELSE NotRun(FilePathError))
        /\ asyncFrame
        /\ UNCHANGED <<received, client, sent, readers>>

\* ValeManager::run starts the lint process, or fails to.
on_change_run(t, spawn_ok) ==
    LET exe == exe_path(managed, fallback, FALSE)
    IN  /\ At(t, "on_change", "run")
        /\ IF ~exe.ok THEN Moved(t, "log", exe)
           ELSE IF ~spawn_ok THEN Moved(t, "log", Err("Io", "spawn"))
           ELSE Moved(t, "lint_wait", NotCalled)
        /\ asyncFrame
        /\ UNCHANGED <<received, document_map, stored_as, client, sent, readers>>

\* The lint process exits and parse_output reads what it wrote.
on_change_lint_returned(t, out) ==
    LET r == parse_output(out)
    IN  /\ At(t, "on_change", "lint_wait")
        /\ IF r.ok THEN Moved(t, "publish", Ok(diagnostics_of(r.value, build)))
           ELSE Moved(t, "log", r)
        /\ asyncFrame
        /\ UNCHANGED <<received, document_map, stored_as, client, sent, readers>>

\* The mutant of on_change_publish: a result older than the one the client
\* shows is dropped.
on_change_publish_latest_only(t) ==
    LET k == tasks[t]
    IN  /\ At(t, "on_change", "publish")
        /\ IF client[k.uri].seq > k.seq
           THEN UNCHANGED <<client, sent>>
           ELSE /\ client' = [client EXCEPT ![k.uri] = [seq |-> k.seq, diagnostics |-> k.result.value]]
                /\ sent' = Append(sent, Call("publish_diagnostics", k.uri, k.seq, k.result.value))
        /\ Returned(t)
        /\ asyncFrame
        /\ UNCHANGED <<received, document_map, stored_as>>

\* client.publish_diagnostics(uri, diagnostics, None).await
on_change_publish(t) ==
    LET k == tasks[t]
    IN  /\ At(t, "on_change", "publish")
        /\ client' = [client EXCEPT ![k.uri] = [seq |-> k.seq, diagnostics |-> k.result.value]]
        /\ sent' = Append(sent, Call("publish_diagnostics", k.uri, k.seq, k.result.value))
        /\ Returned(t)
        /\ asyncFrame
        /\ UNCHANGED <<received, document_map, stored_as>>

\* What on_change logs for a result that is an error.
Message(result) == IF result.kind = "NotRun" THEN result.msg ELSE ParsingError

\* The mutant of on_change_log: a failed lint also clears the diagnostics of
\* the URI.
on_change_log_clearing(t) ==
    LET k == tasks[t]
    IN  /\ At(t, "on_change", "log")
        /\ sent' = Append(sent, Call("log_message", k.uri, k.seq, Message(k.result)))
        /\ client' = IF k.result.kind = "NotRun" THEN client
                      ELSE [client EXCEPT ![k.uri] = [seq |-> k.seq, diagnostics |-> <<>>]]
        /\ Returned(t)
        /\ asyncFrame
        /\ UNCHANGED <<received, document_map, stored_as>>

\* client.log_message(...).await on the three paths without a result.
on_change_log(t) ==
    LET k == tasks[t]
    IN  /\ At(t, "on_change", "log")
        /\ sent' = Append(sent, Call("log_message", k.uri, k.seq, Message(k.result)))
        /\ Returned(t)
        /\ asyncFrame
        /\ UNCHANGED <<received, document_map, stored_as, client>>

\* The response of a request; it is no call to the client.
Responded(t, answer) ==
    /\ sent' = sent
    /\ Returned(t)

\* Backend::completion up to config: get_ext, then document_map.get, whose
\* Ref (rope) is borrowed by line until the handler returns.
completion_get(t) ==
    LET k == tasks[t]
    IN  /\ At(t, "completion", "get")
        /\ IF document_map[k.uri] = NoDoc
           THEN Responded(t, "None")
           ELSE /\ readers' = [readers EXCEPT ![shard_of[k.uri]] = @ \cup {t}]
                /\ Moved(t, "config", Ok(get_ext(k.uri, managed, fallback, "ok", styles_path)))
                /\ UNCHANGED sent
        /\ asyncFrame
        /\ UNCHANGED <<received, document_map, stored_as, client>>

\* ValeManager::config starts the ls-config process, or fails to.
completion_config(t, spawn_ok) ==
    LET exe == exe_path(managed, fallback, FALSE)
    IN  /\ At(t, "completion", "config")
        /\ IF ~exe.ok \/ ~spawn_ok
           THEN Responded(t, "None")
           ELSE /\ Moved(t, "config_wait", tasks[t].result)
                /\ UNCHANGED <<sent, readers>>
        /\ asyncFrame
        /\ UNCHANGED <<received, document_map, stored_as, client>>

\* The ls-config process exits.  For a Packages line of a .vale.ini,
\* ini::complete then awaits the package list (get_pkgs).
completion_config_returned(t, outcome, packages) ==
    LET k == tasks[t]
    IN  /\ At(t, "completion", "config_wait")
        /\ IF outcome = "malformed" THEN Responded(t, "None")
           ELSE IF k.result.value = "ini" /\ packages
           THEN /\ Moved(t, "packages_wait", k.result)
                /\ UNCHANGED <<sent, readers>>
           ELSE Responded(t, "Array")
        /\ asyncFrame
        /\ UNCHANGED <<received, document_map, stored_as, client>>

\* The package list arrives, or the request for it fails.
completion_packages_returned(t) ==
    /\ At(t, "completion", "packages_wait")
    /\ Responded(t, "Array")
    /\ asyncFrame
    /\ UNCHANGED <<received, document_map, stored_as, client>>

\* Backend::document_link for a URI that is not a rule's: get_ext, get, and
\* Ok(None); the Ref is dropped on return.
document_link_none(t) ==
    /\ At(t, "document_link", "get")
    /\ get_ext(tasks[t].uri, managed, fallback, "ok", styles_path) # "yml"
    /\ Responded(t, "None")
    /\ asyncFrame
    /\ UNCHANGED <<received, document_map, stored_as, client>>

AsyncNext ==
    \/ \E t \in TaskIds, u \in AsyncURIs, h \in {"on_change", "completion", "document_link"} :
           receive(t, h, u, "v1")
    \/ \E t \in TaskIds : on_change_update(t)
    \/ \E t \in TaskIds, p \in BOOLEAN : on_change_run(t, p)
    \/ \E t \in TaskIds, o \in AsyncOutputs : on_change_lint_returned(t, o)
    \/ \E t \in TaskIds : on_change_publish(t)
    \/ \E t \in TaskIds : on_change_log(t)
    \/ \E t \in TaskIds : completion_get(t)
    \/ \E t \in TaskIds, p \in BOOLEAN : completion_config(t, p)
    \/ \E t \in TaskIds, o \in {"malformed", "ok"}, p \in BOOLEAN :
           completion_config_returned(t, o, p)
    \/ \E t \in TaskIds : completion_packages_returned(t)
    \/ \E t \in TaskIds : document_link_none(t)

AsyncInit ==
    /\ managed \in {NoExe, Exe(1)}
    /\ fallback = NoExe /\ latest = 1 /\ ops = <<>> /\ tmp = {}
    /\ tasks = [t \in TaskIds |-> NoTask]
    /\ received = 0
    /\ client = [u \in URIs |-> NoDiagnostics]
    /\ sent = <<>>
    /\ readers = [s \in Shards |-> {}]
    /\ shard_of \in {f \in [URIs -> Shards] :
                        \A u \in URIs \ {Uri("untitled", IniPath)} : f[u] = "shard1"}
    /\ writers = <<>>

(***************************************************************************)
(* Calls of add_to_vocab in flight at once on one accept.txt (styles.rs).  *)
(* fs::read_to_string reads the file; fs::write opens it with truncation   *)
(* and then writes the new content from offset 0 of its own descriptor.    *)
(***************************************************************************)
MaxWriters == 2

WriterIds == 1..MaxWriters

\* The terms the concurrent calls add, and what accept.txt holds before.
RaceTerms == {<<"a">>, <<"b", "b">>}

RaceContents == {<<"b">>, <<"a", LF, "b">>}

NoWriter == [pc |-> "idle"]

Writer(pc, term, read, new) == [pc |-> pc, term |-> term, read |-> read, new |-> new]

\* A write of bytes at offset 0 of a file holding content.
written_over(content, bytes) ==
    bytes \o SubSeq(content, Len(bytes) + 1, Len(content))

writerFrame ==
    UNCHANGED <<build, textVars, alertVars, toolVars, serverVars, fs, entries, added,
                tasks, received, client, sent, readers, shard_of>>

\* add_to_vocab(name, term, true) is called.
vocab_call(w, term) ==
    /\ writers.calls[w] = NoWriter
    /\ \A w2 \in 1..(w - 1) : writers.calls[w2] # NoWriter
    /\ writers' = [writers EXCEPT !.calls[w] = Writer("read", term, NotCalled, NotCalled)]
    /\ UNCHANGED vocab
    /\ writerFrame

\* fs::read_to_string, lines, push, sort, join.
vocab_read(w) ==
    LET k == writers.calls[w]
        content == vocab["accept"].content
    IN  /\ k.pc = "read"
        /\ writers' = [writers EXCEPT !.calls[w] =
               Writer("create", k.term, [content |-> content],
                      [content |-> rewritten(content, k.term)])]
        /\ UNCHANGED vocab
        /\ writerFrame

\* fs::write, first half: File::create truncates the file.
vocab_create(w) ==
    /\ writers.calls[w].pc = "create"
    /\ writers' = [writers EXCEPT !.calls[w].pc = "write"]
    /\ vocab' = [vocab EXCEPT !["accept"] = File(<<>>)]
    /\ writerFrame

\* fs::write, second half: write_all.
vocab_write(w) ==
    LET k == writers.calls[w]
    IN  /\ k.pc = "write"
        /\ writers' = [writers EXCEPT !.calls[w].pc = "done"]
        /\ vocab' = [vocab EXCEPT !["accept"] =
               File(written_over(vocab["accept"].content, k.new.content))]
        /\ writerFrame

WriterNext ==
    \/ \E w \in WriterIds, term \in RaceTerms : vocab_call(w, term)
    \/ \E w \in WriterIds : vocab_read(w)
    \/ \E w \in WriterIds : vocab_create(w)
    \/ \E w \in WriterIds : vocab_write(w)

WriterInit ==
    /\ \E c \in RaceContents :
           /\ vocab = [k \in Lists |-> IF k = "accept" THEN File(c) ELSE NoFile]
           /\ writers = [before |-> c, calls |-> [w \in WriterIds |-> NoWriter]]
    /\ added = [k \in Lists |-> <<>>]
    /\ fs = {} /\ entries = NotCalled
    /\ tasks = [t \in TaskIds |-> NoTask]
    /\ received = 0
    /\ client = [u \in URIs |-> NoDiagnostics]
    /\ sent = <<>>
    /\ readers = [s \in Shards |-> {}]
    /\ shard_of = [u \in URIs |-> "shard1"]

TextIdle ==
    /\ rope = <<>> /\ rope0 = <<>> /\ hoverPos = NoPos
    /\ span = NotCalled /\ token = NotCalled /\ span2 = NotCalled

InitText ==
    build \in Builds /\ TextInit /\ alert = NoAlert /\ AlertIdle /\ IndexIdle /\ ToolIdle /\ ServerIdle /\ ConcIdle

SpecText == InitText /\ [][TextNext]_vars

InitToken ==
    build = "release" /\ TextInit /\ alert = NoAlert /\ AlertIdle /\ IndexIdle /\ ToolIdle /\ ServerIdle /\ ConcIdle

SpecToken == InitToken /\ [][TokenNext]_vars

InitAlert == build \in Builds /\ AlertInit /\ TextIdle /\ IndexIdle /\ ToolIdle /\ ServerIdle /\ ConcIdle

InitIndex ==
    build = "release" /\ TextIdle /\ alert = NoAlert /\ AlertIdle /\ IndexIdle /\ ToolIdle /\ ServerIdle /\ ConcIdle

InitTool ==
    build = "release" /\ TextIdle /\ alert = NoAlert /\ AlertIdle /\ IndexIdle /\ ToolInit /\ ServerIdle /\ ConcIdle

SpecTool == InitTool /\ [][ToolNext]_vars

InitFix ==
    build = "release" /\ TextIdle /\ alert = NoAlert /\ AlertIdle /\ IndexIdle /\ ToolInit /\ ServerIdle /\ ConcIdle

SpecFix == InitFix /\ [][FixNext]_vars

InitAsync ==
    /\ build = "release" /\ TextIdle /\ alert = NoAlert /\ AlertIdle /\ IndexIdle
    /\ ServerIdle
    /\ AsyncInit

SpecAsync == InitAsync /\ [][AsyncNext]_vars

InitWriter ==
    /\ build = "release" /\ TextIdle /\ alert = NoAlert /\ AlertIdle
    /\ ToolIdle /\ ServerIdle
    /\ WriterInit

SpecWriter == InitWriter /\ [][WriterNext]_vars

Init ==
    /\ build = "release" /\ TextIdle /\ alert = NoAlert /\ AlertIdle /\ IndexIdle
    /\ ToolIdle
    /\ ServerIdle /\ ConcIdle

InitLint ==
    /\ build \in Builds /\ TextIdle /\ alert = NoAlert /\ AlertIdle /\ IndexIdle
    /\ ToolIdle
    /\ ServerIdle /\ ConcIdle

SpecLint == InitLint /\ [][LintNext]_vars

Next == ServerNext

Spec == Init /\ [][Next]_vars

SpecIndex == InitIndex /\ [][IndexNext]_vars

InitVocab ==
    /\ build = "release" /\ TextIdle /\ alert = NoAlert /\ AlertIdle
    /\ fs = {} /\ entries = NotCalled /\ VocabInit
    /\ ToolIdle /\ ServerIdle /\ ConcIdle

SpecVocab == InitVocab /\ [][VocabNext]_vars

SpecAlert == InitAlert /\ [][AlertNext]_vars

(***************************************************************************)
(* Properties of the text queries (checked under SpecText).                *)
(***************************************************************************)
HoverLine == line_of(rope, hoverPos.line)

\* Columns (0-based) of the hover line that hold a non-whitespace character.
Solid(i) == i >= 0 /\ i < Len(HoverLine) /\ ~IsWhitespace(HoverLine[i + 1])

\* The last hover request asked about a column holding a token's character.
OnToken ==
    /\ hoverPos # NoPos
    /\ hoverPos.line < len_lines(rope)
    /\ Solid(hoverPos.character)

\* First and last column of the whitespace-delimited token around the cursor.
TokFirst ==
    CHOOSE i \in 0..hoverPos.character :
        /\ \A j \in i..hoverPos.character : Solid(j)
        /\ ~Solid(i - 1)

TokLast ==
    CHOOSE i \in hoverPos.character..(Len(HoverLine) - 1) :
        /\ \A j \in hoverPos.character..i : Solid(j)
        /\ ~Solid(i + 1)

\* C6: for a cursor on any character of a token (first, middle or last),
\* position_to_range returns the token's first column and one past its last
\* column, and range_to_token of that range is the whole token.
C6_WholeToken ==
    OnToken =>
        /\ span = SomeSpan(hoverPos.line, TokFirst, TokLast + 1)
        /\ token = Str(SubSeq(HoverLine, TokFirst + 1, TokLast + 1))

\* C6, the cases the code gets right: the cursor is not on the token's last
\* character (so the token has at least two characters).
C6_NotOnLastChar ==
    (OnToken /\ hoverPos.character < TokLast) => C6_WholeToken

\* The example of utils.rs: "BasedOnStyles = Vale", cursor on the V.
C6_Example ==
    /\ rope = ExampleLine
    /\ hoverPos = [line |-> 0, character |-> 16]
    /\ span = SomeSpan(0, 16, 20)
    /\ token = Str(<<"V", "a", "l", "e">>)

\* Neither loop of position_to_range can move: the character before the
\* cursor is whitespace or the cursor is at column 0, and the character after
\* it is whitespace or the cursor is at or past the line's last character.
NeitherMoves ==
    /\ hoverPos.character = 0 \/ IsWhitespace(HoverLine[hoverPos.character])
    /\ \/ hoverPos.character + 1 >= Len(HoverLine)
       \/ IsWhitespace(HoverLine[hoverPos.character + 2])

\* The cursor's column has a whitespace character on both sides.
BetweenWhitespace ==
    /\ hoverPos # NoPos
    /\ hoverPos.line < len_lines(rope)
    /\ hoverPos.character >= 1
    /\ hoverPos.character + 1 < Len(HoverLine)
    /\ IsWhitespace(HoverLine[hoverPos.character])
    /\ IsWhitespace(HoverLine[hoverPos.character + 2])

C5_Range ==
    (diag # NotCalled /\ OneBased(alert)) =>
        /\ diag.kind = "Diagnostic"
        /\ diag.range.start = Pos(alert.line - 1, alert.span[1] - 1)
        /\ diag.range.end = Pos(alert.line - 1, alert.span[2])

C5_Witness ==
    /\ diag # NotCalled
    /\ alert.line = 1
    /\ alert.span = <<1, 2>>
    /\ diag.range = [kind |-> "Range", start |-> Pos(0, 0), end |-> Pos(0, 2)]

\* The edits of a removal answer r and of a non-removal answer o relate as
\* C8 says: same start, same end line, end column one greater.
OneLonger(r, o) ==
    \A i \in DOMAIN r.fixes, j \in DOMAIN o.fixes :
        /\ r.fixes[i].range.start = o.fixes[j].range.start
        /\ r.fixes[i].range.end.line = o.fixes[j].range.end.line
        /\ r.fixes[i].range.end.character = o.fixes[j].range.end.character + 1

BothAnswered ==
    /\ actions # NotCalled /\ actions.kind = "Actions"
    /\ actions2 # NotCalled /\ actions2.kind = "Actions"

\* C8: of two alerts with the same line and span, the removal's edits start
\* where the other's do and end one column further.
C8_RemovalOneLonger ==
    BothAnswered =>
        /\ (alert.action = "remove" /\ alert2.action # "remove") =>
               OneLonger(actions, actions2)
        /\ (alert2.action = "remove" /\ alert.action # "remove") =>
               OneLonger(actions2, actions)

C8_Witness ==
    /\ BothAnswered
    /\ alert.action = "remove" /\ alert2.action = "replace"
    /\ alert.span = <<1, 2>>
    /\ Len(actions.fixes) = 2 /\ Len(actions2.fixes) = 1
    /\ actions.fixes[1].range.end.character = 3
    /\ actions2.fixes[1].range.end.character = 2

(***************************************************************************)
(* Properties of the style index (checked under SpecIndex).                *)
(***************************************************************************)
Indexed == entries # NotCalled

\* The root's directory children that are neither .vale-config nor Vocab.
StyleDirs ==
    {n \in read_dir(fs, <<>>) :
        n.dir /\ entry_name(n.path) \notin {ValeConfigName, VocabName}}

\* The name is some stem followed by ".yml".
YmlSuffixed(name) ==
    /\ Len(name) > 4
    /\ SubSeq(name, Len(name) - 3, Len(name)) = <<".", "y", "m", "l">>

\* The entries of the given kind and path, and how many the index holds.
EntriesAt(kind, path) ==
    {e \in BagToSet(entries.bag) : e.kind = kind /\ e.path = path}

ExactlyOne(kind, path) ==
    /\ Cardinality(EntriesAt(kind, path)) = 1
    /\ \A e \in EntriesAt(kind, path) : CopiesIn(e, entries.bag) = 1

\* C9: each directory child of the root other than .vale-config and Vocab
\* gives exactly one Style entry and exactly one Rule entry per .yml file
\* directly inside it; Style entries come from nowhere else, Rule entries
\* only from .yml-named children of such a directory; files at the root,
\* .vale-config and whatever lies deeper give no entry.
C9_Index ==
    Indexed =>
        /\ \A d \in StyleDirs :
               /\ ExactlyOne("Style", d.path)
               /\ \A f \in read_dir(fs, d.path) :
                      (~f.dir /\ YmlSuffixed(entry_name(f.path))) =>
                          ExactlyOne("Rule", f.path)
        /\ \A e \in BagToSet(entries.bag) :
               /\ e.kind = "Style" => \E d \in StyleDirs : e.path = d.path
               /\ e.kind = "Rule" =>
                      /\ \E d \in StyleDirs : Parent(e.path) = d.path
                      /\ YmlSuffixed(entry_name(e.path))
               /\ Len(e.path) <= 2
               /\ e.path[1] # ValeConfigName
               /\ is_dir(fs, e.path) \/ Len(e.path) = 2

\* A style with a rule file and a nested directory holding another, beside a
\* .yml file at the root: one Style entry, one Rule entry.
C9_Witness ==
    /\ Indexed
    /\ fs = {[path |-> <<StyleName>>, dir |-> TRUE],
             [path |-> <<StyleName, AYmlName>>, dir |-> FALSE],
             [path |-> <<StyleName, SubName>>, dir |-> TRUE],
             [path |-> <<StyleName, SubName, CYmlName>>, dir |-> FALSE],
             [path |-> <<RootYmlName>>, dir |-> FALSE]}
    /\ BagCardinality(entries.bag) = 2
    /\ ExactlyOne("Style", <<StyleName>>)
    /\ ExactlyOne("Rule", <<StyleName, AYmlName>>)

\* How many Rule entries the index holds for the style directory at path.
RuleCount(path) ==
    BagCardinality([e \in {x \in BagToSet(entries.bag) :
                              x.kind = "Rule" /\ Parent(x.path) = path}
                    |-> CopiesIn(e, entries.bag)])

\* C10: a Style entry's size is the number of Rule entries the same index
\* holds for that directory; Rule and Vocabulary entries have size 0.
C10_SizeIsRuleCount ==
    Indexed =>
        \A e \in BagToSet(entries.bag) :
            IF e.kind = "Style" THEN e.size = RuleCount(e.path) ELSE e.size = 0

(***************************************************************************)
(* Properties of the tool manager (checked under SpecTool).                *)
(***************************************************************************)
LastEvent == ops[Len(ops)]

\* The manager's last event was a lint invocation.
RanLint == ops # <<>> /\ LastEvent.op = "run"

\* C1: a lint invocation starts the managed executable when it exists,
\* whether or not a fallback exists; the fallback when only that exists; and
\* when neither exists it fails with "Vale is not installed." and starts no
\* process.
C1_Resolution ==
    RanLint =>
        IF managed.exists
        THEN LastEvent.done.spawned = <<Spawn("managed", "--output=JSON")>>
        ELSE IF fallback.exists
        THEN LastEvent.done.spawned = <<Spawn("fallback", "--output=JSON")>>
        ELSE /\ LastEvent.done.result = NotInstalled
             /\ LastEvent.done.spawned = <<>>

\* Both executables exist and the lint ran the managed one.
C1_Witness ==
    /\ RanLint
    /\ managed.exists /\ fallback.exists
    /\ LastEvent.done.spawned = <<Spawn("managed", "--output=JSON")>>
    /\ LastEvent.done.result.ok

\* Only the fallback exists and the lint ran it.
C1_FallbackCase ==
    /\ RanLint
    /\ ~managed.exists /\ fallback.exists
    /\ LastEvent.done.spawned = <<Spawn("fallback", "--output=JSON")>>

\* Two runs of install_or_update in succession: nothing else happened in
\* between, the first returned a status, and the second found the release
\* index answering with the same latest version and could start the
\* installed executable for its version probe.
TwoRuns ==
    /\ Len(ops) = 2
    /\ ops[1].op = "install_or_update" /\ ops[2].op = "install_or_update"
    /\ ops[1].done.result.ok
    /\ ops[2].env.net_ok /\ ops[2].env.spawn_ok
    /\ ops[1].env.latest = ops[2].env.latest

Tracked == {u \in URIs : document_map[u] # NoDoc}

\* What get_ext answers for u now, the ls-config process succeeding.
ClassifiesNow(u) == get_ext(u, managed, fallback, "ok", styles_path)

\* C3, as claimed: whatever notifications and changes of the style root came
\* before, every URI with an entry in the document map classifies to ini or
\* rule in the present state (an executable being installed).
C3_AllClassify ==
    is_installed(managed, fallback) =>
        \A u \in Tracked : ClassifiesNow(u) \in {"ini", "yml"}

\* C3, amended: every URI with an entry in the document map classified to
\* ini or rule when its text was last stored.
C3_ClassifiedWhenStored ==
    \A u \in Tracked : stored_as[u] \in {"ini", "yml"}

\* A rule file was stored, the style root then changed so that it no longer
\* classifies, and a Markdown document was opened and not stored.
C3_Witness ==
    /\ document_map[Uri("file", RulePath)] # NoDoc
    /\ ClassifiesNow(Uri("file", RulePath)) = ""
    /\ is_installed(managed, fallback)
    /\ handled # NotCalled
    /\ handled.handler = "did_open"
    /\ handled.uri = Uri("file", DocPath)
    /\ document_map[Uri("file", DocPath)] = NoDoc

\* The last notification ran the pipeline and the lint returned a map.
Linted ==
    /\ handled # NotCalled
    /\ handled.lint # NotCalled
    /\ handled.lint.result.ok

LintedAlerts == flatten(handled.lint.result.value)

\* A lint map is well formed when its alerts' lines and columns are 1-based.
WellFormed == \A i \in DOMAIN LintedAlerts : OneBased(LintedAlerts[i])

\* C4: for a well-formed lint output the pipeline makes one publish call, for
\* the changed URI, with exactly as many diagnostics as the output has
\* alerts (N for a single file with N alerts), the i-th made from the i-th
\* alert.
C4_OnePerAlert ==
    (Linted /\ WellFormed) =>
        /\ ~handled.panicked
        /\ Len(handled.published) = 1
        /\ handled.published[1].uri = handled.uri
        /\ Len(handled.published[1].diagnostics) = Len(LintedAlerts)
        /\ \A i \in DOMAIN LintedAlerts :
               /\ handled.published[1].diagnostics[i].data = LintedAlerts[i]
               /\ handled.published[1].diagnostics[i].code = LintedAlerts[i].check
        /\ Len(handled.lint.result.value) = 1 =>
               Len(handled.published[1].diagnostics)
                   = Len(handled.lint.result.value[1].alerts)

\* A save whose lint reported one file with two alerts published two
\* diagnostics.
C4_Witness ==
    /\ Linted /\ WellFormed
    /\ handled.handler = "did_save"
    /\ Len(handled.lint.result.value) = 1
    /\ Len(handled.lint.result.value[1].alerts) = 2
    /\ Len(handled.published) = 1
    /\ Len(handled.published[1].diagnostics) = 2

(***************************************************************************)
(* Properties of the vocabulary files (checked under SpecVocab).           *)
(***************************************************************************)
\* C11: re-reading a list that started empty gives one line per term added,
\* the terms themselves in sorted order.
C11_SortedTerms ==
    \A k \in Lists : vocab[k].exists => lines(vocab[k].content) = sort(added[k])

\* C11 for the terms that are one line: not empty, without a line feed and
\* not ending in a carriage return.
OneLine(t) == t # <<>> /\ (\A i \in DOMAIN t : t[i] # LF) /\ t[Len(t)] # CR

C11_OneLineTerms ==
    \A k \in Lists :
        (vocab[k].exists /\ \A i \in DOMAIN added[k] : OneLine(added[k][i]))
        => lines(vocab[k].content) = sort(added[k])

\* "b" then "a" were added to the accept list, which reads back "a", "b".
C11_Example ==
    /\ vocab["accept"].exists
    /\ added["accept"] = << <<"b">>, <<"a">> >>
    /\ lines(vocab["accept"].content) = << <<"a">>, <<"b">> >>

(***************************************************************************)
(* The styles of an index (checked under SpecIndex).                       *)
(***************************************************************************)
\* Path::starts_with: base is a prefix of path, component by component; the
\* empty path is a prefix of every path.
starts_with(path, base) ==
    \/ base = NoPath
    \/ Len(base) <= Len(path) /\ SubSeq(path, 1, Len(base)) = base

\* The Style entries, the built-in one excepted, whose path the entry's path
\* is a descendant of, and how many they are.
StylesAbove(e) ==
    {y \in BagToSet(entries.styles) :
        y.path # NoPath /\ y.path # e.path /\ starts_with(e.path, y.path)}

StyleCountAbove(e) ==
    BagCardinality([y \in StylesAbove(e) |-> CopiesIn(y, entries.styles)])

\* C12, as claimed: every Rule entry's path and every Vocabulary entry's
\* path is a descendant of exactly one Style entry's path, the built-in
\* style's empty path not counted.
C12_UnderOneStyle ==
    Indexed =>
        \A e \in BagToSet(entries.bag) :
            e.kind \in {"Rule", "Vocab"} => StyleCountAbove(e) = 1

\* C12, amended: a Rule entry's path is a descendant of exactly one Style
\* entry's path, that of its parent directory; a Vocabulary entry's path is a
\* descendant of no Style entry's path.
C12_RulesUnderOneStyle ==
    Indexed =>
        \A e \in BagToSet(entries.bag) :
            /\ e.kind = "Rule" =>
                   /\ StyleCountAbove(e) = 1
                   /\ \A y \in StylesAbove(e) : y.path = Parent(e.path)
            /\ e.kind = "Vocab" => StyleCountAbove(e) = 0

\* An index with a rule under its style and a vocabulary domain.
C12_Witness ==
    /\ Indexed
    /\ \E e \in BagToSet(entries.bag) : e.kind = "Rule" /\ StyleCountAbove(e) = 1
    /\ \E e \in BagToSet(entries.bag) : e.kind = "Vocab" /\ is_dir(fs, e.path)
    /\ BagCardinality(entries.styles) = 2

(***************************************************************************)
(* Updates and requests of the document session (checked under Spec).      *)
(***************************************************************************)
\* The handler called Backend::update (did_open, did_change, did_save with
\* its text).
IsUpdate(h) == h # NotCalled /\ h.calls # <<>> /\ h.calls[1] = "update"

\* The handler answered a hover, completion or document-link request.
IsQuery(h) == h # NotCalled /\ h.handler \in {"hover", "completion", "document_link"}

\* C13, as claimed: a request about a URI that follows an update of that URI
\* which did not classify it finds no document, whether or not an earlier
\* update had stored one.
C13_NoDocumentAfterUnclassified ==
    [][(IsUpdate(handled) /\ handled.ext = ""
        /\ IsQuery(handled') /\ handled'.uri = handled.uri)
       => handled'.found = NoDoc]_vars

\* What an update does to the map: a classified URI gets the text, an
\* unclassified one keeps what it had; no other entry changes.
UpdateStep ==
    IsUpdate(handled') =>
        /\ handled'.ext # "" => document_map'[handled'.uri] = handled'.text
        /\ handled'.ext = "" => document_map'[handled'.uri] = document_map[handled'.uri]
        /\ \A v \in URIs : v # handled'.uri => document_map'[v] = document_map[v]

\* What a request does: it reads the entry of its URI, answers nothing when
\* there is none, and leaves the map alone.
QueryStep ==
    IsQuery(handled') =>
        /\ handled'.found = document_map[handled'.uri]
        /\ handled'.found = NoDoc => handled'.answer = "None"
        /\ document_map' = document_map

\* C13, amended: update stores the text for a URI that classifies to ini or
\* rule, replacing any earlier text, and stores nothing otherwise: a URI no
\* classified update has stored is not tracked and requests about it find no
\* document, while a URI stored by an earlier update keeps that text and
\* requests find it.
C13_Update ==
    /\ [](\A u \in URIs : stored_as[u] = "" => document_map[u] = NoDoc)
    /\ [][UpdateStep /\ QueryStep]_vars

\* An update that did not classify its URI left the different text an
\* earlier update had stored.
C13_Witness ==
    /\ IsUpdate(handled)
    /\ handled.ext = ""
    /\ document_map[handled.uri] # NoDoc
    /\ document_map[handled.uri] # handled.text

\* C14: a document is created on open, replaced on each full-text change and
\* removed on close: once a close notification for a URI has been handled,
\* the document map holds no entry for that URI.
C14_RemovedOnClose ==
    (handled # NotCalled /\ handled.handler = "did_close")
        => document_map[handled.uri] = NoDoc

\* C14, the part the code provides: open, change and save with text put the
\* notification's text in the map for a URI that classifies.
C14_CreatedAndReplaced ==
    (IsUpdate(handled) /\ handled.ext # "") => document_map[handled.uri] = handled.text

(***************************************************************************)
(* The pipeline without the tool (checked under SpecLint).                 *)
(***************************************************************************)
\* The last handler was a text-change event handled with no tool installed.
ChangedWithoutTool ==
    /\ IsUpdate(handled)
    /\ ~handled.has_cli

\* C15, as claimed: while no tool is installed the "not installed" warning
\* is emitted at most once, however many text-change events there are, and
\* the events start no lint and publish nothing.
C15_WarnedOnce ==
    /\ warnings <= 1
    /\ ChangedWithoutTool => handled.lint = NotCalled /\ handled.published = <<>>

\* C15, amended: while no tool is installed every open and every save with
\* its text logs the "not installed" warning, once per event; a full-text
\* change logs nothing; none of them starts a lint or publishes anything.
C15_WarnedEachTime ==
    ChangedWithoutTool =>
        /\ handled.lint = NotCalled
        /\ handled.published = <<>>
        /\ "run" \notin {handled.calls[i] : i \in DOMAIN handled.calls}
        /\ IF handled.handler = "did_change"
           THEN handled.log = <<>>
           ELSE handled.log = <<NotInstalledWarning>>

\* The second open in a row without the tool logged the warning again.
C15_Witness ==
    /\ ChangedWithoutTool
    /\ handled.handler = "did_open"
    /\ handled.log = <<NotInstalledWarning>>
    /\ warnings = 2

(***************************************************************************)
(* The pipeline with the tool (checked under SpecLint).                    *)
(***************************************************************************)
\* The last handler was a text-change event for a file, handled with the
\* tool installed.
ChangedWithTool ==
    /\ IsUpdate(handled)
    /\ handled.has_cli
    /\ handled.uri.scheme = "file"

\* The lint of the last handler returned a map and none of its alerts
\* panics the conversion to a diagnostic.
Convertible ==
    \A i \in DOMAIN LintedAlerts : alert_to_range(LintedAlerts[i], build) # Panic

OnePublish ==
    /\ Len(handled.published) = 1
    /\ handled.published[1].uri = handled.uri

C16_ChangeCase ==
    /\ ChangedWithTool
    /\ handled.handler = "did_change"
    /\ handled.calls = <<"update">>

(***************************************************************************)
(* Code actions (checked under SpecAlert).                                 *)
(***************************************************************************)
\* A code-action request was answered, its first diagnostic being the one
\* the pipeline built for alert.
Answered == actions # NotCalled /\ diag # NotCalled /\ diag # Panic

\* The range of the edits: the diagnostic's, one column longer for a removal.
EditRange ==
    IF alert.action = "remove"
    THEN [diag.range EXCEPT !.end = Pos(diag.range.end.line, diag.range.end.character + 1)]
    ELSE diag.range

\* C17: a request without diagnostics, a failed fix, or an alert without an
\* action name gives no actions; otherwise there is one action per
\* suggestion of fix, in order, each replacing the first diagnostic's range
\* (one column longer for a removal) with its suggestion.
C17_OnePerSuggestion ==
    Answered =>
        IF fixed = NotCalled THEN actions = NoActions
        ELSE IF ~fixed.ok THEN actions = NoActions
        ELSE IF alert.action = NoName THEN actions = NoActions
        ELSE /\ actions.kind = "Actions"
             /\ Len(actions.fixes) = Len(fixed.suggestions)
             /\ \A i \in DOMAIN actions.fixes :
                    /\ actions.fixes[i].new_text = fixed.suggestions[i]
                    /\ actions.fixes[i].range = EditRange
                    /\ actions.fixes[i].title =
                           IF alert.action = "remove"
                           THEN <<"Remove", alert.matched>>
                           ELSE <<"Replace with", fixed.suggestions[i]>>

\* Two suggestions for a replacement gave two edits, in the order of the
\* suggestions.
C17_Witness ==
    /\ Answered
    /\ alert.action = "replace"
    /\ fixed # NotCalled /\ fixed.ok
    /\ fixed.suggestions = <<"the", "ten">>
    /\ actions.kind = "Actions"
    /\ Len(actions.fixes) = 2
    /\ actions.fixes[1].new_text = "the" /\ actions.fixes[2].new_text = "ten"
    /\ actions.fixes[1].range = diag.range

(***************************************************************************)
(* The temporary file of fix (checked under SpecFix).                      *)
(***************************************************************************)
\* The last call of the manager was fix, and it created its temporary file.
FixReturned == ops # <<>> /\ LastEvent.op = "fix" /\ LastEvent.done.created # <<>>

\* The exit paths of fix after the file was created.
FixExits == {"Io:write", "Msg:Vale is not installed.", "Io:spawn", "Utf8:stdout", "Json:stdout", "ok"}

FixExit ==
    IF LastEvent.done.result.ok THEN "ok"
    ELSE LastEvent.done.result.kind \o ":" \o LastEvent.done.result.msg

\* C18: whenever fix has returned, on whichever exit path, no temporary
\* file it created exists any more.
C18_TempFileRemoved ==
    /\ tmp = {}
    /\ FixReturned => FixExit \in FixExits /\ LastEvent.done.left = {}

\* fix returned with a spawn failure after writing its file, and the file
\* is gone.
C18_Witness ==
    /\ FixReturned
    /\ FixExit = "Io:spawn"
    /\ LastEvent.done.created = <<TempFile("alert1")>>
    /\ tmp = {}

(***************************************************************************)
(* The outcome of a lint invocation (checked under SpecTool).              *)
(***************************************************************************)
\* The last lint invocation started its process, which wrote LintOut.
LintRan == RanLint /\ LastEvent.env.spawn_ok /\ LastEvent.done.spawned # <<>>

LintOut == LastEvent.env.out

LintResult == LastEvent.done.result

\* What the standard output alone decides.
FromStdout(out) ==
    CASE out.stdout.kind = "empty" -> Err("Msg", out.stderr)
      [] out.stdout.kind = "malformed" -> Err("Json", "stdout")
      [] out.stdout.kind = "json" -> Ok(out.stdout.value)
      [] OTHER -> Err("Utf8", "stdout")

\* C19 as stated: empty standard output always gives a message error with
\* the standard-error text, malformed output a JSON error, and any other
\* non-empty output its map, whatever the exit code.
C19_StdoutDecides ==
    LintRan /\ LintOut.stdout.kind # "nonutf8" => LintResult = FromStdout(LintOut)

\* C19, amended: when neither stream fails to decode as UTF-8 the outcome
\* is what the standard output decides, whatever the exit code; a stream
\* that is not UTF-8 gives a UTF-8 error whatever the other stream holds.
C19_DecodedStreamsDecide ==
    LintRan =>
        IF LintOut.stdout.kind = "nonutf8" \/ LintOut.stderr = NotUtf8
        THEN ~LintResult.ok /\ LintResult.kind = "Utf8"
        ELSE LintResult = FromStdout(LintOut)

\* A process that exited with status 0 and wrote nothing to standard
\* output gave a message error carrying its standard-error text.
C19_Witness ==
    /\ LintRan
    /\ LintOut.code = 0
    /\ LintOut.stdout.kind = "empty"
    /\ LintResult = Err("Msg", "E100")

\* A process that exited with a failure status and wrote a map gave the map.
C19_FailedExitCase ==
    /\ LintRan
    /\ LintOut.code = 1
    /\ LintOut.stdout.kind = "json" /\ LintOut.stdout.value # <<>>
    /\ LintResult = Ok(LintOut.stdout.value)

(***************************************************************************)
(* Failures of the tool manager (checked under SpecTool).                  *)
(***************************************************************************)
\* The last call started a process that could not be started.
SpawnFailed ==
    /\ ops # <<>>
    /\ LastEvent.op \in {"run", "install_or_update"}
    /\ LastEvent.done.spawned # <<>>
    /\ ~LastEvent.env.spawn_ok

\* The last call asked a release index that did not answer.
FetchFailed == ops # <<>> /\ LastEvent.op = "install_or_update" /\ ~LastEvent.env.net_ok

\* C20: a process that cannot be started, a release index that does not
\* answer, and lint output that is malformed or not UTF-8 each reach the
\* caller as the error of that kind, never as a success or another outcome.
C20_FailuresSurface ==
    /\ SpawnFailed => LastEvent.done.result = Err("Io", "spawn")
    /\ FetchFailed => LastEvent.done.result = Err("Http", "fetch")
    /\ LintRan /\ LintOut.stdout.kind = "malformed" /\ LintOut.stderr # NotUtf8 =>
           LintResult = Err("Json", "stdout")
    /\ LintRan /\ LintOut.stdout.kind = "nonutf8" => LintResult = Err("Utf8", "stdout")

\* The version probe of an installed executable could not be started, and
\* install_or_update answered with a fresh installation.
C20_Example ==
    /\ SpawnFailed
    /\ LastEvent.op = "install_or_update"
    /\ LastEvent.done.result = Ok(Installed(latest))
    /\ LastEvent.done.downloaded = <<latest>>

(***************************************************************************)
(* Overlapping lint invocations (checked under SpecAsync).                 *)
(***************************************************************************)
IsPublish(c) == c.call = "publish_diagnostics"

\* The publish calls made for u, in the order they were made.
Publishes(u) ==
    LET ForU(c) == IsPublish(c) /\ c.uri = u
    IN  SelectSeq(sent, ForU)

Last(q) == q[Len(q)]

\* The future t makes its publish call in this step.
Publishing(t) == At(t, "on_change", "publish") /\ tasks'[t] = NoTask

\* C21: the client shows for every URI the diagnostics of the publish call
\* made last for it, and every lint that succeeded is published when its
\* handler gets there, whatever was published for the URI in between.
C21_LastPublishWins ==
    /\ [](\A u \in URIs :
             client[u] = IF Publishes(u) = <<>> THEN NoDiagnostics
                         ELSE [seq |-> Last(Publishes(u)).seq,
                               diagnostics |-> Last(Publishes(u)).payload])
    /\ [][\A t \in TaskIds :
             Publishing(t) =>
                 /\ client'[tasks[t].uri] =
                        [seq |-> tasks[t].seq, diagnostics |-> tasks[t].result.value]
                 /\ sent' = Append(sent, Call("publish_diagnostics", tasks[t].uri,
                                               tasks[t].seq, tasks[t].result.value))]_vars

\* Two notifications for one file were linted and published, the second
\* first: the client shows the result of the first, which differs.
C21_Witness ==
    LET u == Uri("file", IniPath)
    IN  /\ Len(Publishes(u)) = 2
        /\ Publishes(u)[1].seq > Publishes(u)[2].seq
        /\ Publishes(u)[1].payload # Publishes(u)[2].payload
        /\ client[u].seq = Publishes(u)[2].seq
        /\ client[u].diagnostics = Publishes(u)[2].payload

(***************************************************************************)
(* Locks held across a wait (checked under SpecAsync).                     *)
(***************************************************************************)
\* The future waits for a process, for the package list, or for the client.
Waiting(t) == tasks[t].pc \in {"lint_wait", "config_wait", "packages_wait", "publish", "log"}

Holding(t) == {s \in Shards : t \in readers[s]}

\* C23: no handler holds the lock of a document-map shard while it waits.
C23_NoLockWhileWaiting == \A t \in TaskIds : Waiting(t) => Holding(t) = {}

\* A completion waits for ls-config holding the shard of its document, and
\* the update of another document of that shard cannot proceed.
C23_Example ==
    \E t1, t2 \in TaskIds :
        /\ tasks[t1].pc = "config_wait"
        /\ tasks[t2].pc = "update"
        /\ tasks[t2].uri # tasks[t1].uri
        /\ shard_of[tasks[t2].uri] \in Holding(t1)
        /\ ~ENABLED on_change_update(t2)

(***************************************************************************)
(* A lint invocation that fails (checked under SpecAsync).                 *)
(***************************************************************************)
\* The lint invocation of the handler failed: its process could not be
\* started, or parse_output returned an error.
LintFailed(k) == k.pc = "log" /\ k.result.kind # "NotRun"

\* The handler future t learns in this step that its lint failed, or
\* returns after it did.
FailingStep(t) ==
    \/ tasks[t].pc \in {"run", "lint_wait"} /\ LintFailed(tasks'[t])
    \/ LintFailed(tasks[t]) /\ tasks'[t] = NoTask

\* C29: a handler whose lint invocation failed makes no publish call, only
\* a log call, so the diagnostics the client shows stay as they were; and
\* the text its update stored is not taken back.
C29_FailedLintPublishesNothing ==
    /\ [][\A t \in TaskIds :
             FailingStep(t) =>
                 /\ client' = client
                 /\ document_map' = document_map
                 /\ \A i \in DOMAIN sent' : i > Len(sent) => ~IsPublish(sent'[i])
                 /\ tasks'[t] = NoTask =>
                        Last(sent') = Call("log_message", tasks[t].uri, tasks[t].seq,
                                           ParsingError)]_vars
    /\ [](\A t \in TaskIds :
             LintFailed(tasks[t]) => document_map[tasks[t].uri] = tasks[t].text)

\* Diagnostics were published for the file, a later lint of it failed with
\* a parsing error, and the client still shows the diagnostics.
C29_Witness ==
    LET u == Uri("file", IniPath)
    IN  /\ Len(sent) = 2
        /\ sent[1].call = "publish_diagnostics" /\ sent[1].uri = u
        /\ sent[1].payload # <<>>
        /\ sent[2] = Call("log_message", u, 2, ParsingError)
        /\ client[u] = [seq |-> 1, diagnostics |-> sent[1].payload]
        /\ document_map[u] = "v1"

(***************************************************************************)
(* Concurrent appends to one vocabulary file (checked under SpecWriter).   *)
(***************************************************************************)
\* The contents the file holds between rewrites: what it held before the
\* calls, and what each call that has read it is to write.
WholeContents ==
    {writers.before} \cup
    {writers.calls[w].new.content : w \in {x \in WriterIds : writers.calls[x].pc \in {"create", "write", "done"}}}

AllDone == \A w \in WriterIds : writers.calls[w].pc = "done"

\* C22: no call reads a partially written file, and when the calls are done
\* the file holds exactly what one of them wrote.
C22_AtomicRewrite ==
    /\ \A w \in WriterIds :
           writers.calls[w].pc \in {"create", "write", "done"} =>
               writers.calls[w].read.content \in
                   {writers.before} \cup
                   {writers.calls[x].new.content :
                        x \in {y \in WriterIds \ {w} : writers.calls[y].pc = "done"}}
    /\ AllDone => vocab["accept"].content \in WholeContents

\* A call read the file between the truncation and the write of the other:
\* it saw an empty file, and the terms the file held are lost.
C22_Example ==
    /\ AllDone
    /\ writers.before = <<"a", LF, "b">>
    /\ \E w \in WriterIds : writers.calls[w].read.content = <<>>
    /\ lines(vocab["accept"].content) = <<writers.calls[2].term>>

\* Both calls truncated the file before either wrote: the file ends as the
\* shorter content written over the longer.
C22_MixedExample ==
    /\ AllDone
    /\ vocab["accept"].content \notin WholeContents

(***************************************************************************)
(* Reads of position_to_range (checked under SpecText).                    *)
(***************************************************************************)
\* A position on a line of the document was asked for.
AskedOnALine == hoverPos # NoPos /\ hoverPos.line < len_lines(rope)

\* C24: for every line of the document and every column, position_to_range
\* returns: it reads no character outside the line and its arithmetic does
\* not underflow.
C24_ReadsInsideLine == AskedOnALine => span # Panic

\* A column past the end of a line without a line break: the left scan
\* starts by reading the character before the column, which is outside the
\* line.
C24_Example ==
    /\ AskedOnALine
    /\ HoverLine = <<"a", "b">>
    /\ hoverPos.character = 3
    /\ span = Panic

\* The empty last line: the line length minus one underflows.
C24_EmptyLineExample ==
    /\ AskedOnALine
    /\ HoverLine = <<>>
    /\ hoverPos.character = 0
    /\ span = Panic

(***************************************************************************)
(* range_to_token on any range (checked under SpecToken).                  *)
(***************************************************************************)
\* range_to_token was called about the range span.
TokenAsked == hoverPos = NoPos /\ span # NotCalled

\* The range lies inside its line.
InsideLine(r) ==
    /\ r.line < len_lines(rope)
    /\ r.start <= r.end
    /\ r.end <= Len(line_of(rope, r.line))

\* C25: a range inside its line gives the characters of the line between
\* its columns, and every other range the empty string.
C25_EmptyWhenOutOfBounds ==
    TokenAsked =>
        token = IF InsideLine(span)
                THEN Str(SubSeq(line_of(rope, span.line), span.start + 1, span.end))
                ELSE Str(<<>>)

\* A range that ends past the end of its line: the call panics.
C25_Example ==
    /\ TokenAsked
    /\ rope = <<"a", "b">>
    /\ span = SomeSpan(0, 1, 3)
    /\ token = Panic

\* A range inside its line gives the substring.
C25_InsideCase ==
    /\ TokenAsked
    /\ rope = <<"a", "b", " ", "a">>
    /\ span = SomeSpan(0, 0, 2)
    /\ token = Str(<<"a", "b">>)

(***************************************************************************)
(* The Vocab directory in the index (checked under SpecIndex).             *)
(***************************************************************************)
\* The root has a directory named Vocab.
HasVocabDir == is_dir(fs, <<VocabName>>)

\* The entries that come from Vocab: those at or below it.
FromVocab == {e \in BagToSet(entries.bag) : e.path[1] = VocabName}

\* C26: the index holds, of Vocab and what lies in it, exactly one
\* Vocabulary entry per subdirectory directly inside Vocab and nothing else.
C26_VocabDomains ==
    Indexed /\ HasVocabDir =>
        /\ \A d \in read_dir(fs, <<VocabName>>) : d.dir => ExactlyOne("Vocab", d.path)
        /\ \A e \in FromVocab :
               /\ e.kind = "Vocab"
               /\ Len(e.path) = 2
               /\ is_dir(fs, e.path)

\* A file a.yml directly inside Vocab has a Vocabulary entry of its own.
C26_Example ==
    /\ Indexed
    /\ fs = {[path |-> <<VocabName>>, dir |-> TRUE],
             [path |-> <<VocabName, SubName>>, dir |-> TRUE],
             [path |-> <<VocabName, AYmlName>>, dir |-> FALSE]}
    /\ ExactlyOne("Vocab", <<VocabName, SubName>>)
    /\ ExactlyOne("Vocab", <<VocabName, AYmlName>>)

(***************************************************************************)
(* When install_or_update installs (checked under SpecTool).               *)
(***************************************************************************)
\* The last call was install_or_update; it found the release index and, if
\* it downloaded, could.
InstallRan ==
    /\ ops # <<>>
    /\ LastEvent.op = "install_or_update"
    /\ LastEvent.env.net_ok
    /\ LastEvent.done.result.ok

\* The managed executable was absent, or was not the latest version.
NeedsInstall ==
    ~LastEvent.env.before.exists \/ LastEvent.env.before.version # LastEvent.env.latest

InstalledLatest ==
    /\ LastEvent.done.downloaded = <<LastEvent.env.latest>>
    /\ managed = Exe(LastEvent.env.latest)

InstalledNothing ==
    /\ LastEvent.done.downloaded = <<>>
    /\ managed = LastEvent.env.before

\* C27: install_or_update installs the latest version exactly when the
\* managed executable is absent or of another version, older or newer, and
\* nothing otherwise, whatever the fallback executable is.
C27_InstallsWhenDifferent ==
    InstallRan => IF NeedsInstall THEN InstalledLatest ELSE InstalledNothing

\* The same, for the calls whose version probe could be started.
C27_WhenProbeStarts ==
    InstallRan /\ LastEvent.env.spawn_ok =>
        IF NeedsInstall THEN InstalledLatest ELSE InstalledNothing

\* The managed executable was the latest version, its version probe could
\* not be started, and the latest version was installed over it.
C27_Example ==
    /\ InstallRan
    /\ LastEvent.env.before = Exe(LastEvent.env.latest)
    /\ ~LastEvent.env.spawn_ok
    /\ InstalledLatest

\* The managed executable was newer than the latest release and was
\* replaced by the latest, a fallback of yet another version standing by.
C27_DowngradeCase ==
    /\ ops # <<>>
    /\ LastEvent.op = "install_or_update"
    /\ LastEvent.env.spawn_ok
    /\ LastEvent.done.spawned = <<Spawn("managed", "-v")>>
    /\ LastEvent.env.before = Exe(2)
    /\ LastEvent.done.downloaded = <<1>>
    /\ latest = 1
    /\ managed = Exe(1)
    /\ fallback = Exe(2)

(***************************************************************************)
(* Underflow in alert_to_range (checked under SpecAlert).                  *)
(***************************************************************************)
\* C28: converting an accepted alert never computes 0 - 1: it does not
\* panic, and no start coordinate is the wrapped value.
C28_NoUnderflow ==
    diag # NotCalled =>
        /\ diag # Panic
        /\ diag.range.start.line # U32Max
        /\ diag.range.start.character # U32Max

\* An alert on line 0, without overflow checks: the range starts and ends
\* on line u32::MAX.
C28_Example ==
    /\ build = "release"
    /\ alert.line = 0 /\ alert.span = <<1, 2>>
    /\ diag # NotCalled
    /\ diag.range.start = Pos(U32Max, 0)
    /\ diag.range.end = Pos(U32Max, 2)

\* An alert whose span starts at 0, with overflow checks: the conversion
\* panics.
C28_PanicExample ==
    /\ build = "debug"
    /\ alert.span[1] = 0
    /\ diag = Panic

(***************************************************************************)
(* Classification without the tool (checked under Spec).                   *)
(***************************************************************************)
\* The update of this step found no executable, or its config call failed.
NoConfig(h) == ~h.has_cli \/ (h.config # NotCalled /\ ~h.config.ok)

\* C30: an update of a URI ending in "yml" that finds no executable, or
\* whose config call fails, adds nothing to the document map; an update of
\* a URI whose path contains ".vale.ini" stores the text and starts no
\* process for the classification.
C30_UntrackedWithoutConfig ==
    [][IsUpdate(handled') /\ handled' # handled =>
           /\ IsYml(handled'.uri) /\ NoConfig(handled') =>
                  /\ handled'.ext = ""
                  /\ document_map' = document_map
           /\ IsYml(handled'.uri) /\ ~handled'.has_cli => handled'.spawned = <<>>
           /\ IsIni(handled'.uri) =>
                  /\ handled'.ext = "ini"
                  /\ document_map'[handled'.uri] = handled'.text
                  /\ handled'.spawned = <<>>
                  /\ handled'.config = NotCalled]_vars

\* With no executable a .vale.ini was stored; the tool then appeared, and a
\* rule file under the style root was opened while ls-config failed: it is
\* not in the map.
C30_Witness ==
    /\ document_map[Uri("file", IniPath)] # NoDoc
    /\ IsUpdate(handled)
    /\ handled.uri = Uri("file", RulePath)
    /\ handled.has_cli
    /\ handled.spawned # <<>>
    /\ handled.config = Err("Json", "stdout")
    /\ document_map[Uri("file", RulePath)] = NoDoc

\* With no executable a .vale.ini was opened and stored, no process started.
C30_IniCase ==
    /\ IsUpdate(handled)
    /\ ~handled.has_cli
    /\ handled.uri = Uri("file", IniPath)
    /\ handled.spawned = <<>>
    /\ document_map[Uri("file", IniPath)] = handled.text

====
